---- MODULE Spec2Model ----
(***************************************************************************)
(* Mission Assembly Engine of the conveyor inspection mission generator:   *)
(* the environment graph, the waypoint builder, the task resolver and the  *)
(* mission linker, in the class-based pipeline (field_utils/models.py,     *)
(* field_utils/task_factory.py, field_utils/environment_builder.py,        *)
(* field_utils/mission_generator.py, main.py) and in the template-based    *)
(* pipeline (generate_straight_environment_and_missions_FW_RV.py,          *)
(* field_utils/mission_utils.py, field_utils/environment_utils.py).        *)
(*                                                                         *)
(* Python dicts are records (a key is present iff it is in DOMAIN),        *)
(* Python lists are sequences, Python strings are strings joined with \o   *)
(* and str(i) is ToString(i).  Float literals that are only passed         *)
(* through (durations, tolerances, sizes) are kept as their literal text.  *)
(***************************************************************************)
EXTENDS Integers, Sequences, FiniteSets, TLC

VARIABLES
    env,                 \* class pipeline: Environment (objects, object_relations)
    task_list_data,      \* class pipeline: the descriptor list handed to process_mission_generation
    mission_tasks,       \* class pipeline: process_mission_generation's list of resolved tasks
    mission,             \* class pipeline: the Mission returned, None before the call
    legacy_env,          \* template pipeline: the environment dict
    legacy_task_list,    \* template pipeline: the descriptor list
    legacy_mission,      \* template pipeline: the mission dict returned, None before the call
    entries,             \* main: the segment descriptors of the configuration
    entry_idx,           \* main: position of the for-loop over entries (1-based)
    mission_chunks,      \* main: chunks returned for the current segment
    forward_task_list,   \* generate_and_save_missions: flattened chunks
    reverse_task_list,   \* generate_and_save_missions: chunks reversed, then flattened
    final_mission_fwd,   \* generate_and_save_missions: forward Mission
    final_mission_rev,   \* generate_and_save_missions: reverse Mission
    mission_again,       \* class pipeline: the Mission of a second call on the same list, None before it
    legacy_mission_again, \* template pipeline: the mission dict of a second call, None before it
    pc                   \* position of the run

vars == <<env, task_list_data, mission_tasks, mission, legacy_env, legacy_task_list, legacy_mission,
          entries, entry_idx, mission_chunks, forward_task_list, reverse_task_list,
          final_mission_fwd, final_mission_rev, pc,
                   mission_again, legacy_mission_again>>

\* Python's None
None == [none |-> TRUE]

\* the sentinel the task classes and templates put in a transition that continues
PLACEHOLDER == "[next_task_name]"

\* the reserved exit states (Mission.__init__ "outcomes")
Outcomes == <<"failure", "preemption", "success">>

ExitStates == {Outcomes[k] : k \in DOMAIN Outcomes}

Has(d, key) == key \in DOMAIN d

\* dict.get(key, default)
Get(d, key, default) == IF key \in DOMAIN d THEN d[key] ELSE default

\* d[key] = value on a dict
Put(d, key, value) == [k \in (DOMAIN d) \cup {key} |-> IF k = key THEN value ELSE d[k]]

Range(s) == {s[k] : k \in DOMAIN s}

-----------------------------------------------------------------------------
(* models.py: transitions, settings, mission tasks *)

Transition(outcome, transition, transition_to_state) ==
    [outcome |-> outcome, transition |-> transition, transition_to_state |-> transition_to_state]

Setting(name, type, value) == [name |-> name, type |-> type, value |-> value]

\* variant of _create_default_transitions: a Dock task continues on success
create_default_transitions_dock_continues(cls) ==
    CASE cls = "DockTask" ->
            << Transition("failure", "failure", FALSE),
               Transition("preemption", "preemption", FALSE),
               Transition("success", PLACEHOLDER, TRUE) >>
      [] cls \in {"UndockTask", "SleepTask"} ->
            << Transition("failure", "failure", FALSE),
               Transition("preemption", "preemption", FALSE),
               Transition("success", PLACEHOLDER, TRUE) >>
      [] cls = "NavigationTask" ->
            << Transition("failure", PLACEHOLDER, TRUE),
               Transition("preemption", "preemption", FALSE),
               Transition("success", PLACEHOLDER, TRUE) >>
      [] cls = "InspectionTask" ->
            << Transition("anomaly", PLACEHOLDER, TRUE),
               Transition("failure", PLACEHOLDER, TRUE),
               Transition("normal", PLACEHOLDER, TRUE),
               Transition("preemption", "preemption", FALSE) >>
      [] cls = "SimpleInspectionTask" ->
            << Transition("failure", PLACEHOLDER, TRUE),
               Transition("success", PLACEHOLDER, TRUE),
               Transition("preemption", "preemption", FALSE) >>

\* variant of _create_default_transitions: Sleep and Undock reuse the SimpleInspection set
create_default_transitions_sleep_like_inspection(cls) ==
    CASE cls = "DockTask" ->
            << Transition("failure", "failure", FALSE),
               Transition("preemption", "preemption", FALSE),
               Transition("success", "success", FALSE) >>
      [] cls = "NavigationTask" ->
            << Transition("failure", PLACEHOLDER, TRUE),
               Transition("preemption", "preemption", FALSE),
               Transition("success", PLACEHOLDER, TRUE) >>
      [] cls = "InspectionTask" ->
            << Transition("anomaly", PLACEHOLDER, TRUE),
               Transition("failure", PLACEHOLDER, TRUE),
               Transition("normal", PLACEHOLDER, TRUE),
               Transition("preemption", "preemption", FALSE) >>
      [] cls \in {"SimpleInspectionTask", "SleepTask", "UndockTask"} ->
            << Transition("failure", PLACEHOLDER, TRUE),
               Transition("success", PLACEHOLDER, TRUE),
               Transition("preemption", "preemption", FALSE) >>

\* MissionTask._create_default_transitions, one branch per subclass
create_default_transitions(cls) ==
    CASE cls = "UndockTask" ->
            << Transition("failure", "failure", FALSE),
               Transition("preemption", "preemption", FALSE),
               Transition("success", PLACEHOLDER, TRUE) >>
      [] cls = "DockTask" ->
            << Transition("failure", "failure", FALSE),
               Transition("preemption", "preemption", FALSE),
               Transition("success", "success", FALSE) >>
      [] cls = "SleepTask" ->
            << Transition("failure", "failure", FALSE),
               Transition("preemption", "preemption", FALSE),
               Transition("success", PLACEHOLDER, TRUE) >>
      [] cls = "NavigationTask" ->
            << Transition("failure", PLACEHOLDER, TRUE),
               Transition("preemption", "preemption", FALSE),
               Transition("success", PLACEHOLDER, TRUE) >>
      [] cls = "InspectionTask" ->
            << Transition("anomaly", PLACEHOLDER, TRUE),
               Transition("failure", PLACEHOLDER, TRUE),
               Transition("normal", PLACEHOLDER, TRUE),
               Transition("preemption", "preemption", FALSE) >>
      [] cls = "SimpleInspectionTask" ->
            << Transition("failure", PLACEHOLDER, TRUE),
               Transition("success", PLACEHOLDER, TRUE),
               Transition("preemption", "preemption", FALSE) >>

\* MissionTask.__init__
MissionTask(cls, name, task_type, settings) ==
    [cls |-> cls, name |-> name, type |-> task_type, settings |-> settings,
     transitions |-> create_default_transitions(cls)]

UndockTask(name) == MissionTask("UndockTask", name, "system_behavior_plugins::Walk", <<>>)

DockTask(name, docking_station) ==
    MissionTask("DockTask", name, "docking_behavior_plugins::Dock",
                << Setting("docking_station", "DockingStation", docking_station) >>)

SleepTask(name, duration) ==
    MissionTask("SleepTask", name, "basic_behavior_plugins::Sleep",
                << Setting("duration", "double", duration) >>)

NavigationTask(name, navigation_goal, route_option) ==
    MissionTask("NavigationTask", name, "navigation_behavior_plugins::ReactiveNavigation",
                << Setting("navigation_goal", "NavigationGoal", navigation_goal),
                   Setting("route_option", "RouteOption", route_option) >>)

InspectionTask(name, inspectable_item, plugin, action) ==
    MissionTask("InspectionTask", name, plugin \o "::" \o action,
                << Setting("inspectable_item", "InspectableItem", inspectable_item) >>)

SimpleInspectionTask(name, inspectable_item, plugin, action) ==
    MissionTask("SimpleInspectionTask", name, plugin \o "::" \o action,
                << Setting("inspectable_item", "InspectableItem", inspectable_item) >>)

\* variant of link_to: every transition is pointed at the next task, the placeholder
\* test left out
link_to_every_transition(self, next_task) ==
    [self EXCEPT !.transitions =
        [k \in DOMAIN self.transitions |->
            [self.transitions[k] EXCEPT !.transition = next_task.name]]]

\* variant of link_to: the task's own name is written instead of the next task's
link_to_own_name(self, next_task) ==
    [self EXCEPT !.transitions =
        [k \in DOMAIN self.transitions |->
            IF self.transitions[k].transition = PLACEHOLDER
            THEN [self.transitions[k] EXCEPT !.transition = self.name]
            ELSE self.transitions[k]]]

\* MissionTask.link_to
link_to(self, next_task) ==
    [self EXCEPT !.transitions =
        [k \in DOMAIN self.transitions |->
            IF self.transitions[k].transition = PLACEHOLDER
            THEN [self.transitions[k] EXCEPT !.transition = next_task.name]
            ELSE self.transitions[k]]]

\* variant of set_as_final: transition_to_state is left as it was
set_as_final_keeps_flag(self) ==
    [self EXCEPT !.transitions =
        [k \in DOMAIN self.transitions |->
            IF self.transitions[k].transition = PLACEHOLDER
            THEN [self.transitions[k] EXCEPT
                    !.transition = IF self.transitions[k].outcome \in {"success", "normal"}
                                   THEN "success" ELSE "failure"]
            ELSE self.transitions[k]]]

\* MissionTask.set_as_final
set_as_final(self) ==
    [self EXCEPT !.transitions =
        [k \in DOMAIN self.transitions |->
            IF self.transitions[k].transition = PLACEHOLDER
            THEN [self.transitions[k] EXCEPT
                    !.transition_to_state = FALSE,
                    !.transition = IF self.transitions[k].outcome \in {"success", "normal"}
                                   THEN "success" ELSE "failure"]
            ELSE self.transitions[k]]]

MissionSetting(name, type, value) == [name |-> name, type |-> type, value |-> value]

\* Mission.__init__
Mission(name, initial_state, states) ==
    [name |-> name,
     type |-> "state_machine::DynamicStateMachine",
     settings |-> << MissionSetting("default_initial_state", "DefaultInitialState", initial_state),
                     MissionSetting("outcomes", "Outcomes", Outcomes),
                     MissionSetting("restart_on_execution", "bool", FALSE),
                     MissionSetting("states", "States", states) >>]

\* the two settings of a Mission the linker fills in
InitialStateOf(m) == m.settings[1].value
StatesOf(m) == m.settings[4].value

-----------------------------------------------------------------------------
(* models.py: Environment *)

\* Environment.__init__
Environment == [objects |-> <<>>, object_relations |-> <<>>]

ObjectRelation(child, parent) == [child |-> child, parent |-> parent]

\* Environment.add_object
add_object(e, obj) == [e EXCEPT !.objects = Append(@, obj)]

\* Environment.add_relation
add_relation(e, child, parent) ==
    [e EXCEPT !.object_relations = Append(@, ObjectRelation(child, parent))]

\* Environment.has_object
has_object(e, name) == \E k \in DOMAIN e.objects : e.objects[k].name = name

\* variant of Environment.get_object: the last match in insertion order
get_object_last(e, name) ==
    IF has_object(e, name)
    THEN LET last == CHOOSE k \in DOMAIN e.objects :
                        /\ e.objects[k].name = name
                        /\ \A j \in (k+1)..Len(e.objects) : e.objects[j].name # name
         IN e.objects[last]
    ELSE None

\* Environment.get_object: first match in insertion order, or None
get_object(e, name) ==
    IF has_object(e, name)
    THEN LET first == CHOOSE k \in DOMAIN e.objects :
                        /\ e.objects[k].name = name
                        /\ \A j \in 1..(k-1) : e.objects[j].name # name
         IN e.objects[first]
    ELSE None

-----------------------------------------------------------------------------
(* task_factory.py (the same code is repeated in main.py): the task resolver *)

TaskConfig(task_prefix, item_suffix, plugin, task_class) ==
    [task_prefix |-> task_prefix, item_suffix |-> item_suffix,
     plugin |-> plugin, task_class |-> task_class]

TASK_CONFIGS ==
    [t \in {"visual_inspection_thermal", "inspection_intelligence",
            "auditive_inspection_frequency", "visual_inspection_simple",
            "auditive_inspection_simple", "visual_inspection_video_recording",
            "navigation_goal"} |->
        CASE t = "visual_inspection_thermal" ->
                TaskConfig("Inspect", "VIT", "visual_inspection_thermal_behavior_plugins", "InspectionTask")
          [] t = "inspection_intelligence" ->
                TaskConfig("Inspect", "II", "inspection_intelligence_behavior_plugins", "InspectionTask")
          [] t = "auditive_inspection_frequency" ->
                TaskConfig("Inspect", "AudioFreq", "auditive_inspection_frequency_behavior_plugins", "InspectionTask")
          [] t = "visual_inspection_simple" ->
                TaskConfig("Inspect", "VIS", "visual_inspection_simple_behavior_plugins", "SimpleInspectionTask")
          [] t = "auditive_inspection_simple" ->
                TaskConfig("Inspect", "AudioS", "auditive_inspection_simple_behavior_plugins", "SimpleInspectionTask")
          [] t = "visual_inspection_video_recording" ->
                TaskConfig("Record", "VSVR", "visual_inspection_video_recording_behavior_plugins", "SimpleInspectionTask")
          [] t = "navigation_goal" ->
                TaskConfig("Navigate to", "NavGoal", "navigation_behavior_plugins", "NavigationTask")]

\* create_task_entry, lines 88-89: the descriptor dict itself gets its label
default_label(task) == IF Has(task, "label") THEN task ELSE Put(task, "label", task.name)

\* create_task_entry, lines 91-98: the type given, or the type tag of the first graph
\* object of that name; found is FALSE on the early return None
resolve_task_type(task, e) ==
    LET task_type == Get(task, "type", "")
    IN IF task_type # ""
       THEN [found |-> TRUE, type |-> task_type]
       ELSE LET env_obj == get_object(e, task.name)
            IN IF env_obj = None
               THEN [found |-> FALSE, type |-> ""]
               ELSE [found |-> TRUE, type |-> env_obj.type]

\* variant of lines 123-131: name-suffix is tried before the exact name
resolve_object_name_suffix_first(task, config, e) ==
    IF has_object(e, task.name \o "-" \o config.item_suffix)
    THEN [found |-> TRUE, name |-> task.name \o "-" \o config.item_suffix]
    ELSE IF has_object(e, task.name)
         THEN [found |-> TRUE, name |-> task.name]
         ELSE [found |-> FALSE, name |-> ""]

\* create_task_entry, lines 123-131: exact name, else name-suffix; found is FALSE on
\* the early return None
resolve_object_name(task, config, e) ==
    IF has_object(e, task.name)
    THEN [found |-> TRUE, name |-> task.name]
    ELSE LET object_name_with_suffix == task.name \o "-" \o config.item_suffix
         IN IF has_object(e, object_name_with_suffix)
            THEN [found |-> TRUE, name |-> object_name_with_suffix]
            ELSE [found |-> FALSE, name |-> ""]

\* create_task_entry, lines 133-159: build the task of the configured class
build_configured_task(task, config, object_name) ==
    LET task_name == IF config.task_prefix # ""
                     THEN config.task_prefix \o " " \o task.label
                     ELSE task.label
        action == Get(task, "action", "Inspect")
    IN CASE config.task_class = "NavigationTask" ->
                NavigationTask(task_name, object_name, "Along Waypoints")
         [] config.task_class = "InspectionTask" ->
                InspectionTask(task_name, object_name, config.plugin, action)
         [] config.task_class = "SimpleInspectionTask" ->
                SimpleInspectionTask(task_name, object_name, config.plugin, action)
         [] OTHER -> None

\* variant of create_task_entry: a system task is built only when the graph has an
\* object of the descriptor's name
create_task_entry_needs_object(task_in, e) ==
    LET task == default_label(task_in)
        resolved == resolve_task_type(task, e)
        task_type == resolved.type
    IN IF ~resolved.found THEN None
       ELSE IF task_type \in {"undock", "dock", "sleep"} /\ ~has_object(e, task.name) THEN None
       ELSE IF task_type = "undock" THEN UndockTask(Get(task, "label", "Undock"))
       ELSE IF task_type = "dock"
            THEN DockTask(Get(task, "label", "Dock"), Get(task, "docking_station", "Suggested"))
       ELSE IF task_type = "sleep"
            THEN SleepTask(Get(task, "label", "Sleep " \o task.name), Get(task, "duration", "5.0"))
       ELSE IF task_type \notin DOMAIN TASK_CONFIGS THEN None
       ELSE LET config == TASK_CONFIGS[task_type]
                object == resolve_object_name(task, config, e)
            IN IF ~object.found THEN None
               ELSE build_configured_task(task, config, object.name)

\* create_task_entry: the MissionTask, or None when the descriptor is dropped
create_task_entry(task_in, e) ==
    LET task == default_label(task_in)
        resolved == resolve_task_type(task, e)
        task_type == resolved.type
    IN IF ~resolved.found THEN None
       ELSE IF task_type = "undock" THEN UndockTask(Get(task, "label", "Undock"))
       ELSE IF task_type = "dock"
            THEN DockTask(Get(task, "label", "Dock"), Get(task, "docking_station", "Suggested"))
       ELSE IF task_type = "sleep"
            THEN SleepTask(Get(task, "label", "Sleep " \o task.name), Get(task, "duration", "5.0"))
       ELSE IF task_type \notin DOMAIN TASK_CONFIGS THEN None
       ELSE LET config == TASK_CONFIGS[task_type]
                object == resolve_object_name(task, config, e)
            IN IF ~object.found THEN None
               ELSE build_configured_task(task, config, object.name)

\* variant of the resolution loop: each task is linked to the task of the next
\* descriptor before the dropped ones are filtered out
RECURSIVE resolve_all_link_early(_, _)
resolve_all_link_early(task_list, e) ==
    IF task_list = <<>> THEN <<>>
    ELSE LET mission_task == create_task_entry(Head(task_list), e)
             rest == resolve_all_link_early(Tail(task_list), e)
             next_name == IF Len(task_list) > 1
                          THEN default_label(task_list[2]).label
                          ELSE PLACEHOLDER
         IN IF mission_task = None THEN rest
            ELSE IF Len(task_list) > 1
                 THEN << link_to(mission_task, [name |-> next_name]) >> \o rest
                 ELSE << mission_task >> \o rest

\* process_mission_generation, lines 180-184: the tasks that resolved, in input order
RECURSIVE resolve_all(_, _)
resolve_all(task_list, e) ==
    IF task_list = <<>> THEN <<>>
    ELSE LET mission_task == create_task_entry(Head(task_list), e)
             rest == resolve_all(Tail(task_list), e)
         IN IF mission_task = None THEN rest ELSE <<mission_task>> \o rest

\* variant of the linking loop: the last task is never marked final
link_tasks_without_final(resolved_tasks) ==
    [i \in DOMAIN resolved_tasks |->
        IF i < Len(resolved_tasks)
        THEN link_to(resolved_tasks[i], resolved_tasks[i + 1])
        ELSE resolved_tasks[i]]

\* variant of the linking loop: every task is linked to the last task
link_tasks_to_last(resolved_tasks) ==
    [i \in DOMAIN resolved_tasks |->
        IF i < Len(resolved_tasks)
        THEN link_to(resolved_tasks[i], resolved_tasks[Len(resolved_tasks)])
        ELSE set_as_final(resolved_tasks[i])]

\* process_mission_generation, lines 186-192: link each task to the next, mark the last
link_tasks(resolved_tasks) ==
    [i \in DOMAIN resolved_tasks |->
        IF i < Len(resolved_tasks)
        THEN link_to(resolved_tasks[i], resolved_tasks[i + 1])
        ELSE set_as_final(resolved_tasks[i])]

\* variant of line 195: the initial state is the name of the last task
link_and_wrap_initial_last(resolved_tasks, mission_name) ==
    LET linked == link_tasks(resolved_tasks)
        initial_state == IF linked # <<>> THEN linked[Len(linked)].name ELSE ""
    IN Mission(mission_name, initial_state, linked)

\* process_mission_generation, lines 186-196: link, take the initial state, wrap
link_and_wrap(resolved_tasks, mission_name) ==
    LET linked == link_tasks(resolved_tasks)
        initial_state == IF linked # <<>> THEN linked[1].name ELSE ""
    IN Mission(mission_name, initial_state, linked)

\* process_mission_generation
process_mission_generation(task_list, e, mission_name) ==
    link_and_wrap(resolve_all(task_list, e), mission_name)

\* what process_mission_generation leaves in the caller's descriptor dicts
labelled(task_list) == [i \in DOMAIN task_list |-> default_label(task_list[i])]

-----------------------------------------------------------------------------
(* mission_utils.py: the task templates and the two linking helpers of the
   template-based pipeline *)

mission_template ==
    [name |-> "[name]",
     settings |-> << [name |-> "default_initial_state", type |-> "DefaultInitialState", value |-> "[undock]"],
                     [name |-> "outcomes", type |-> "Outcomes", value |-> <<"failure", "preemption", "success">>],
                     [name |-> "restart_on_execution", type |-> "bool", value |-> FALSE],
                     [name |-> "states", type |-> "States", value |-> "[list_of_states]"] >>,
     type |-> "state_machine::DynamicStateMachine"]

sleep_task ==
    [name |-> "[task_name]",
     settings |-> << [name |-> "duration", type |-> "double", value |-> "5.0"] >>,
     transitions |-> << Transition("failure", "failure", FALSE),
                        Transition("preemption", "preemption", FALSE),
                        Transition("success", PLACEHOLDER, TRUE) >>,
     type |-> "basic_behavior_plugins::Sleep"]

undock_task ==
    [name |-> "Undock",
     settings |-> << >>,
     transitions |-> << Transition("failure", "failure", FALSE),
                        Transition("preemption", "preemption", FALSE),
                        Transition("success", PLACEHOLDER, TRUE) >>,
     type |-> "system_behavior_plugins::Walk"]

dock_task ==
    [name |-> "Dock",
     settings |-> << [name |-> "docking_station", type |-> "DockingStation", value |-> "Suggested"] >>,
     transitions |-> << Transition("failure", "failure", FALSE),
                        Transition("preemption", "preemption", FALSE),
                        Transition("success", "success", FALSE) >>,
     type |-> "docking_behavior_plugins::Dock"]

inspection_task ==
    [name |-> "[task_name]",
     settings |-> << [name |-> "inspectable_item", type |-> "InspectableItem", value |-> "[item_name]"] >>,
     transitions |-> << Transition("anomaly", PLACEHOLDER, TRUE),
                        Transition("failure", PLACEHOLDER, TRUE),
                        Transition("normal", PLACEHOLDER, TRUE),
                        Transition("preemption", "preemption", FALSE) >>,
     type |-> "[plugin_name]::[plugin_action]"]

simple_inspection_task ==
    [name |-> "[task_name]",
     settings |-> << [name |-> "inspectable_item", type |-> "InspectableItem", value |-> "[item_name]"] >>,
     transitions |-> << Transition("failure", PLACEHOLDER, TRUE),
                        Transition("success", PLACEHOLDER, TRUE),
                        Transition("preemption", "preemption", FALSE) >>,
     type |-> "[plugin_name]::[plugin_action]"]

navigation_task ==
    [name |-> "[task_name]",
     settings |-> << [name |-> "navigation_goal", type |-> "NavigationGoal", value |-> "[item_name]"],
                     [name |-> "route_option", type |-> "RouteOption", value |-> "Along Waypoints"] >>,
     transitions |-> << Transition("failure", PLACEHOLDER, TRUE),
                        Transition("preemption", "preemption", FALSE),
                        Transition("success", PLACEHOLDER, TRUE) >>,
     type |-> "navigation_behavior_plugins::ReactiveNavigation"]

set_next_task_name(task, next_task_name) ==
    [task EXCEPT !.transitions =
        [k \in DOMAIN task.transitions |->
            IF task.transitions[k].transition = PLACEHOLDER
            THEN [task.transitions[k] EXCEPT !.transition = next_task_name]
            ELSE task.transitions[k]]]

set_last_task_transitions(task) ==
    [task EXCEPT !.transitions =
        [k \in DOMAIN task.transitions |->
            IF task.transitions[k].transition = PLACEHOLDER
            THEN [task.transitions[k] EXCEPT
                    !.transition_to_state = FALSE,
                    !.transition = IF \/ task.transitions[k].outcome = "success"
                                      \/ task.transitions[k].outcome = "normal"
                                   THEN "success" ELSE "failure"]
            ELSE task.transitions[k]]]

-----------------------------------------------------------------------------
(* environment_utils.py and generate_straight_environment_and_missions_FW_RV.py:
   the template-based resolver and linker *)

\* get_item_from_name: first object dict of that name, or None
get_item_from_name(environment, item_name) ==
    IF \E k \in DOMAIN environment.objects : environment.objects[k].name = item_name
    THEN LET first == CHOOSE k \in DOMAIN environment.objects :
                        /\ environment.objects[k].name = item_name
                        /\ \A j \in 1..(k-1) : environment.objects[j].name # item_name
         IN environment.objects[first]
    ELSE None

\* the first relation of the list whose parent is parent_name
first_relation_of_parent(environment, parent_name) ==
    CHOOSE k \in DOMAIN environment.object_relations :
        /\ environment.object_relations[k].parent = parent_name
        /\ \A j \in 1..(k-1) : environment.object_relations[j].parent # parent_name

\* get_nav_zone_from_inspection: the child of the first relation whose parent is the
\* inspection; found is FALSE when the loop ends without a return (None)
get_nav_zone_from_inspection(environment, inspection_name) ==
    IF \E k \in DOMAIN environment.object_relations :
            environment.object_relations[k].parent = inspection_name
    THEN [found |-> TRUE,
          name |-> environment.object_relations[
                     first_relation_of_parent(environment, inspection_name)].child]
    ELSE [found |-> FALSE, name |-> ""]

\* get_nav_goal_from_zone: the child of the first relation whose parent is the zone;
\* a zone name of None equals no parent
get_nav_goal_from_zone(environment, zone) ==
    IF zone.found /\ \E k \in DOMAIN environment.object_relations :
                        environment.object_relations[k].parent = zone.name
    THEN [found |-> TRUE,
          name |-> environment.object_relations[
                     first_relation_of_parent(environment, zone.name)].child]
    ELSE [found |-> FALSE, name |-> ""]

\* get_nav_goal_from_inspection
get_nav_goal_from_inspection(environment, inspection_name) ==
    get_nav_goal_from_zone(environment,
                           get_nav_zone_from_inspection(environment, inspection_name))

LegacyTaskType(task_prefix, item_suffix, plugin, mission_task) ==
    [task_prefix |-> task_prefix, item_suffix |-> item_suffix,
     plugin |-> plugin, mission_task |-> mission_task]

task_data ==
    [t \in {"visual_inspection_thermal", "inspection_intelligence",
            "auditive_inspection_frequency", "visual_inspection_simple",
            "auditive_inspection_simple", "visual_inspection_video_recording",
            "undock", "dock", "navigation_goal", "sleep"} |->
        CASE t = "visual_inspection_thermal" ->
                LegacyTaskType("Inspect", "VIT", "visual_inspection_thermal_behavior_plugins", inspection_task)
          [] t = "inspection_intelligence" ->
                LegacyTaskType("Inspect", "II", "inspection_intelligence_behavior_plugins", inspection_task)
          [] t = "auditive_inspection_frequency" ->
                LegacyTaskType("Inspect", "AudioFreq", "auditive_inspection_frequency_behavior_plugins", inspection_task)
          [] t = "visual_inspection_simple" ->
                LegacyTaskType("Inspect", "VIS", "visual_inspection_simple_behavior_plugins", simple_inspection_task)
          [] t = "auditive_inspection_simple" ->
                LegacyTaskType("Inspect", "AudioS", "auditive_inspection_simple_behavior_plugins", simple_inspection_task)
          [] t = "visual_inspection_video_recording" ->
                LegacyTaskType("Record", "VSVR", "visual_inspection_video_recording_behavior_plugins", simple_inspection_task)
          [] t = "undock" ->
                LegacyTaskType("", "", "system_behavior_plugins", undock_task)
          [] t = "dock" ->
                LegacyTaskType("", "", "system_behavior_plugins", dock_task)
          [] t = "navigation_goal" ->
                LegacyTaskType("Navigate to", "NavGoal", "navigation_behavior_plugins", navigation_task)
          [] t = "sleep" ->
                LegacyTaskType("", "S", "basic_behavior_plugins", sleep_task)]

simplified_task_type == {"dock", "undock", "sleep"}

\* create_task_entry (template pipeline), lines 118-135: label and type are written
\* into the descriptor dict; typed is FALSE on the early return None
legacy_typed(task_in, environment) ==
    LET task == IF Has(task_in, "label") THEN task_in ELSE Put(task_in, "label", task_in.name)
    IN IF Has(task, "type")
       THEN [typed |-> TRUE, task |-> task]
       ELSE LET envObject == get_item_from_name(environment, task.name)
            IN IF envObject = None
               THEN [typed |-> FALSE, task |-> task]
               ELSE [typed |-> TRUE, task |-> Put(task, "type", envObject.type)]

\* variant of lines 141-159: the descriptor's name takes the suffix whenever the
\* exact name is not in the graph, the suffixed name found or not
legacy_checked_name_always_renames(task, active_task_type, environment) ==
    IF /\ task.type \notin simplified_task_type
       /\ get_item_from_name(environment, task.name) = None
    THEN [task EXCEPT !.name = task.name \o "-" \o active_task_type.item_suffix]
    ELSE task

\* create_task_entry (template pipeline), lines 141-159: the existence check only
\* warns; on a suffix hit the descriptor's name is overwritten
legacy_checked_name(task, active_task_type, environment) ==
    IF /\ task.type \notin simplified_task_type
       /\ get_item_from_name(environment, task.name) = None
    THEN IF get_item_from_name(environment, task.name \o "-" \o active_task_type.item_suffix) = None
         THEN task
         ELSE [task EXCEPT !.name = task.name \o "-" \o active_task_type.item_suffix]
    ELSE task

\* str.replace of "[plugin_name]" and "[plugin_action]" on a template's type: only the
\* inspection templates' type holds the two tokens
legacy_type_string(template_type, plugin, action_val) ==
    IF template_type = "[plugin_name]::[plugin_action]"
    THEN plugin \o "::" \o action_val
    ELSE template_type

\* create_task_entry (template pipeline), lines 161-164: a sleep descriptor's duration
\* is written into the copied template's "duration" setting
legacy_set_duration(copied, task) ==
    IF task.type = "sleep" /\ Has(task, "duration")
    THEN [copied EXCEPT !.settings =
            [k \in DOMAIN copied.settings |->
                IF copied.settings[k].name = "duration"
                THEN [copied.settings[k] EXCEPT !.value = task.duration]
                ELSE copied.settings[k]]]
    ELSE copied

\* create_task_entry (template pipeline), lines 180-185: the task's name
legacy_set_name(mission_task, active_task_type, task) ==
    [mission_task EXCEPT !.name =
        IF active_task_type.task_prefix # ""
        THEN active_task_type.task_prefix \o " " \o task.label
        ELSE task.label]

\* create_task_entry (template pipeline), lines 187-191: the first setting takes the
\* object's name unless it is the duration
legacy_set_item(mission_task, task) ==
    IF Len(mission_task.settings) > 0 /\ mission_task.settings[1].name # "duration"
    THEN [mission_task EXCEPT !.settings[1].value = task.name]
    ELSE mission_task

\* create_task_entry (template pipeline), lines 167-173 and 193-204: the action and
\* the plugin are written into the type
legacy_set_type(mission_task, active_task_type, task) ==
    [mission_task EXCEPT !.type =
        legacy_type_string(@, active_task_type.plugin, Get(task, "action", "Inspect"))]

\* create_task_entry (template pipeline), lines 161-206, once the name is settled
legacy_fill(task, active_task_type) ==
    [mission_task |->
        legacy_set_type(
            legacy_set_item(
                legacy_set_name(
                    legacy_set_duration(active_task_type.mission_task, task),
                    active_task_type, task),
                task),
            active_task_type, task),
     task |-> task]

\* create_task_entry (template pipeline), lines 137-206, for a descriptor of a table type
legacy_build(task_in, environment) ==
    legacy_fill(legacy_checked_name(task_in, task_data[task_in.type], environment),
                task_data[task_in.type])

\* create_task_entry (template pipeline), lines 137-206 and 175-177: a descriptor
\* without a type or of a type outside the table gives None
legacy_dispatch(t, environment) ==
    IF ~t.typed THEN [mission_task |-> None, task |-> t.task]
    ELSE IF t.task.type \in DOMAIN task_data
         THEN legacy_build(t.task, environment)
         ELSE [mission_task |-> None, task |-> t.task]

\* create_task_entry (template pipeline): the task dict (or None) and the descriptor
\* dict as the call leaves it
legacy_create_task_entry(task_in, environment) ==
    legacy_dispatch(legacy_typed(task_in, environment), environment)

\* process_mission_generation (template pipeline), lines 215-231: one resolved
\* descriptor r is taken into acc; previous_task is the last element of mission_tasks
legacy_step(r, acc) ==
    IF r.mission_task = None
    THEN [acc EXCEPT !.tasks = Append(@, r.task)]
    ELSE [mission_tasks |->
            IF Len(acc.mission_tasks) > 0
            THEN Append([acc.mission_tasks EXCEPT
                            ![Len(acc.mission_tasks)] = set_next_task_name(@, r.mission_task.name)],
                        r.mission_task)
            ELSE << r.mission_task >>,
          initial_task |-> IF Len(acc.mission_tasks) > 0
                           THEN acc.initial_task ELSE r.mission_task.name,
          tasks |-> Append(acc.tasks, r.task)]

\* process_mission_generation (template pipeline), lines 213-231: acc carries
\* mission_tasks, initial_task and the descriptors as mutated
RECURSIVE legacy_loop(_, _, _)
legacy_loop(task_list, environment, acc) ==
    IF task_list = <<>> THEN acc
    ELSE legacy_loop(Tail(task_list), environment,
                     legacy_step(legacy_create_task_entry(Head(task_list), environment), acc))

\* process_mission_generation (template pipeline), lines 233-234: the last task leaves
\* the mission
legacy_finish_last(tasks) ==
    IF Len(tasks) > 0
    THEN [tasks EXCEPT ![Len(tasks)] = set_last_task_transitions(@)]
    ELSE tasks

\* process_mission_generation (template pipeline), lines 236-244: the mission template
\* is filled
legacy_fill_template(initial_task, finished_tasks, mission_name) ==
    [mission_template EXCEPT
        !.settings = [k \in DOMAIN @ |->
                        IF @[k].name = "default_initial_state"
                        THEN [@[k] EXCEPT !.value = initial_task]
                        ELSE IF @[k].name = "states"
                             THEN [@[k] EXCEPT !.value = finished_tasks]
                             ELSE @[k]],
        !.name = mission_name]

\* process_mission_generation (template pipeline), lines 233-244, on the loop's result
legacy_wrap(looped, mission_name) ==
    [mission |-> legacy_fill_template(looped.initial_task,
                                      legacy_finish_last(looped.mission_tasks), mission_name),
     tasks |-> looped.tasks]

\* process_mission_generation (template pipeline): the mission dict and the
\* descriptor list as the call leaves it
legacy_process_mission_generation(task_list, environment, mission_name) ==
    legacy_wrap(legacy_loop(task_list, environment,
                            [mission_tasks |-> <<>>, initial_task |-> "", tasks |-> <<>>]),
                mission_name)

-----------------------------------------------------------------------------
(* models.py: environment objects.  Coordinates are exact fractions n/d. *)

RECURSIVE GCD(_, _)
GCD(a, b) == IF b = 0 THEN a ELSE GCD(b, a % b)

Abs(a) == IF a < 0 THEN -a ELSE a

\* the number n/d (d > 0) in lowest terms
Frac(n, d) == LET g == GCD(Abs(n), d) IN [n |-> n \div g, d |-> d \div g]

FracOfInt(a) == [n |-> a, d |-> 1]

FracAdd(p, q) == Frac(p.n * q.d + q.n * p.d, p.d * q.d)

FracMul(p, q) == Frac(p.n * q.n, p.d * q.d)

Position == [x |-> FracOfInt(0), y |-> FracOfInt(0), z |-> FracOfInt(0)]

Orientation == [w |-> 1, x |-> 0, y |-> 0, z |-> 0]

Tolerance == [translation |-> "0.05", rotation |-> "0.104719758033752"]

Size == [width |-> "0.1", height |-> "0.8"]

TemperatureRange == [min |-> "-20.0", max |-> "900.0"]

\* PoseStamped.__init__
PoseStamped == [pose |-> [position |-> Position, orientation |-> Orientation], tolerance |-> None]

\* EnvironmentObject.__init__ with label = name
EnvironmentObject(name, obj_type) ==
    [name |-> name, label |-> name, type |-> obj_type, pose |-> PoseStamped]

NavigationGoal(name) == EnvironmentObject(name, "navigation_goal")

NavigationZone(name) == [name |-> name, label |-> name, type |-> "navigation_zone"]

DockingStation(name) == EnvironmentObject(name, "docking_station")

ThermalInspectionPoint(name) ==
    EnvironmentObject(name, "visual_inspection_thermal") @@
    [min_certainty |-> "0.6", temperature_type |-> "Max", unit |-> "degreesC",
     normal_operating_range |-> TemperatureRange]

VisualInspectionPoint(name) ==
    EnvironmentObject(name, "visual_inspection_simple") @@
    [camera_type |-> "normal", size |-> Size]

\* EnvironmentObject.set_position
set_position(obj, position) ==
    [obj EXCEPT !.pose.pose.position = [x |-> position[1], y |-> position[2], z |-> position[3]]]

\* EnvironmentObject.set_orientation, called with the four fields of a config orientation
set_orientation(obj, o) ==
    [obj EXCEPT !.pose.pose.orientation = [w |-> o.w, x |-> o.x, y |-> o.y, z |-> o.z]]

\* NavigationGoal.set_translation_tolerance / PoseStamped.set_translation_tolerance
set_translation_tolerance(obj, tolerance) ==
    [obj EXCEPT !.pose.tolerance =
        IF @ = None THEN [Tolerance EXCEPT !.translation = tolerance]
        ELSE [@ EXCEPT !.translation = tolerance]]

\* VisualInspectionPoint.set_size
set_size(obj, width, height) == [obj EXCEPT !.size = [width |-> width, height |-> height]]

-----------------------------------------------------------------------------
(* geometry.py.  Segment end points are integer triples whose distance is a whole
   number, so the square root is exact. *)

calculate_distance(start, end) ==
    LET sq == (start[1] - end[1]) * (start[1] - end[1])
            + (start[2] - end[2]) * (start[2] - end[2])
            + (start[3] - end[3]) * (start[3] - end[3])
    IN CHOOSE r \in 0..sq : r * r = sq

\* variant of calculate_waypoint_position: the waypoints are laid out from end
calculate_waypoint_position_from_end(start, end, spacing, index, distance) ==
    LET ratio == IF distance > 0 THEN Frac(index * spacing, distance) ELSE FracOfInt(0)
    IN << FracAdd(FracOfInt(end[1]), FracMul(FracOfInt(start[1] - end[1]), ratio)),
          FracAdd(FracOfInt(end[2]), FracMul(FracOfInt(start[2] - end[2]), ratio)),
          FracAdd(FracOfInt(end[3]), FracMul(FracOfInt(start[3] - end[3]), ratio)) >>

calculate_waypoint_position(start, end, spacing, index, distance) ==
    LET ratio == IF distance > 0 THEN Frac(index * spacing, distance) ELSE FracOfInt(0)
    IN << FracAdd(FracOfInt(start[1]), FracMul(FracOfInt(end[1] - start[1]), ratio)),
          FracAdd(FracOfInt(start[2]), FracMul(FracOfInt(end[2] - start[2]), ratio)),
          FracAdd(FracOfInt(start[3]), FracMul(FracOfInt(end[3] - start[3]), ratio)) >>

-----------------------------------------------------------------------------
(* environment_builder.py (the same code is repeated in main.py): the waypoint builder *)

\* variant of create_navigation_waypoint: the zone is named in the relation and never
\* added to the graph
create_navigation_waypoint_without_zone(name, position, entry, e) ==
    LET g0 == set_position(NavigationGoal(name \o "_NavGoal"), position)
        g1 == IF Has(entry, "orientation") THEN set_orientation(g0, entry.orientation) ELSE g0
        nav_goal == IF Has(entry, "translation_tolerance")
                    THEN set_translation_tolerance(g1, entry.translation_tolerance)
                    ELSE g1
        nav_zone == NavigationZone(name \o "_NavZone")
    IN [nav_goal |-> nav_goal,
        nav_zone |-> nav_zone,
        env |-> add_relation(add_object(e, nav_goal), nav_goal.name, nav_zone.name)]

\* variant of create_navigation_waypoint: the zone is added to the graph before the goal
create_navigation_waypoint_zone_first(name, position, entry, e) ==
    LET g0 == set_position(NavigationGoal(name \o "_NavGoal"), position)
        g1 == IF Has(entry, "orientation") THEN set_orientation(g0, entry.orientation) ELSE g0
        nav_goal == IF Has(entry, "translation_tolerance")
                    THEN set_translation_tolerance(g1, entry.translation_tolerance)
                    ELSE g1
        nav_zone == NavigationZone(name \o "_NavZone")
    IN [nav_goal |-> nav_goal,
        nav_zone |-> nav_zone,
        env |-> add_relation(add_object(add_object(e, nav_zone), nav_goal),
                             nav_goal.name, nav_zone.name)]

\* create_navigation_waypoint: the goal, the zone and the environment after the call
create_navigation_waypoint(name, position, entry, e) ==
    LET g0 == set_position(NavigationGoal(name \o "_NavGoal"), position)
        g1 == IF Has(entry, "orientation") THEN set_orientation(g0, entry.orientation) ELSE g0
        nav_goal == IF Has(entry, "translation_tolerance")
                    THEN set_translation_tolerance(g1, entry.translation_tolerance)
                    ELSE g1
        nav_zone == NavigationZone(name \o "_NavZone")
    IN [nav_goal |-> nav_goal,
        nav_zone |-> nav_zone,
        env |-> add_relation(add_object(add_object(e, nav_goal), nav_zone),
                             nav_goal.name, nav_zone.name)]

\* variant of create_inspection_point: the task specification carries the plain
\* action of the resolver's default
create_inspection_point_plain_action(obj_name, position, inspection_config, nav_zone, e) ==
    LET inspection_type == inspection_config.type
    IN IF inspection_type = "thermal_inspection"
       THEN LET i0 == set_position(ThermalInspectionPoint(obj_name), position)
                inspection == IF Has(inspection_config, "orientation")
                              THEN set_orientation(i0, inspection_config.orientation)
                              ELSE i0
            IN [task_spec |-> [name |-> obj_name, type |-> "visual_inspection_thermal",
                               action |-> "Inspect"],
                env |-> add_relation(add_object(e, inspection), nav_zone.name, inspection.name)]
       ELSE IF inspection_type = "visual_inspection"
       THEN LET i0 == set_position(VisualInspectionPoint(obj_name), position)
                i1 == IF Has(inspection_config, "orientation")
                      THEN set_orientation(i0, inspection_config.orientation)
                      ELSE i0
                inspection == IF Has(inspection_config, "width") /\ Has(inspection_config, "height")
                              THEN set_size(i1, inspection_config.width, inspection_config.height)
                              ELSE i1
            IN [task_spec |-> [name |-> obj_name, type |-> "visual_inspection_simple",
                               action |-> "Inspect"],
                env |-> add_relation(add_object(e, inspection), nav_zone.name, inspection.name)]
       ELSE [task_spec |-> None, env |-> e]

\* create_inspection_point: the task specification (None for another type) and the
\* environment after the call
create_inspection_point(obj_name, position, inspection_config, nav_zone, e) ==
    LET inspection_type == inspection_config.type
    IN IF inspection_type = "thermal_inspection"
       THEN LET i0 == set_position(ThermalInspectionPoint(obj_name), position)
                inspection == IF Has(inspection_config, "orientation")
                              THEN set_orientation(i0, inspection_config.orientation)
                              ELSE i0
            IN [task_spec |-> [name |-> obj_name, type |-> "visual_inspection_thermal",
                               action |-> "InspectFromHere"],
                env |-> add_relation(add_object(e, inspection), nav_zone.name, inspection.name)]
       ELSE IF inspection_type = "visual_inspection"
       THEN LET i0 == set_position(VisualInspectionPoint(obj_name), position)
                i1 == IF Has(inspection_config, "orientation")
                      THEN set_orientation(i0, inspection_config.orientation)
                      ELSE i0
                inspection == IF Has(inspection_config, "width") /\ Has(inspection_config, "height")
                              THEN set_size(i1, inspection_config.width, inspection_config.height)
                              ELSE i1
            IN [task_spec |-> [name |-> obj_name, type |-> "visual_inspection_simple",
                               action |-> "InspectFromHere"],
                env |-> add_relation(add_object(e, inspection), nav_zone.name, inspection.name)]
       ELSE [task_spec |-> None, env |-> e]

\* generate_waypoints_for_segment, lines 210-235: the loop over the segment's
\* inspections; acc carries the environment and current_chunk
RECURSIVE inspections_loop(_, _, _, _, _)
inspections_loop(inspections, waypoint_name, actual_nav_pos, nav_zone, acc) ==
    IF inspections = <<>> THEN acc
    ELSE LET inspection_entry == Head(inspections)
             inspection_pos ==
                << FracAdd(actual_nav_pos[1], FracOfInt(inspection_entry.offset[1])),
                   FracAdd(actual_nav_pos[2], FracOfInt(inspection_entry.offset[2])),
                   FracAdd(actual_nav_pos[3], FracOfInt(inspection_entry.offset[3])) >>
             known == inspection_entry.type \in {"thermal_inspection", "visual_inspection"}
             obj_name == IF inspection_entry.type = "thermal_inspection"
                         THEN waypoint_name \o inspection_entry.suffix \o "VIT"
                         ELSE waypoint_name \o inspection_entry.suffix \o "VIS"
             made == create_inspection_point(obj_name, inspection_pos, inspection_entry,
                                             nav_zone, acc.env)
             next_acc == IF ~known THEN acc
                         ELSE [env |-> made.env,
                               current_chunk |-> IF made.task_spec = None
                                                 THEN acc.current_chunk
                                                 ELSE Append(acc.current_chunk, made.task_spec)]
         IN inspections_loop(Tail(inspections), waypoint_name, actual_nav_pos, nav_zone, next_acc)

\* generate_waypoints_for_segment, lines 193-237: waypoints i .. n; acc carries the
\* environment and mission_chunks
RECURSIVE waypoints_loop(_, _, _, _, _)
waypoints_loop(i, n, entry, dist, acc) ==
    IF i > n THEN acc
    ELSE LET actual_nav_pos ==
                calculate_waypoint_position(entry.start, entry.end, entry.spacing, i, dist)
             waypoint_name == entry.name \o ToString(i)
             wp == create_navigation_waypoint(waypoint_name, actual_nav_pos, entry, acc.env)
             nav_task == [name |-> wp.nav_goal.name, type |-> "navigation_goal"]
             filled == IF Has(entry, "inspections")
                       THEN inspections_loop(entry.inspections, waypoint_name, actual_nav_pos,
                                             wp.nav_zone,
                                             [env |-> wp.env, current_chunk |-> << nav_task >>])
                       ELSE [env |-> wp.env, current_chunk |-> << nav_task >>]
         IN waypoints_loop(i + 1, n, entry, dist,
                           [env |-> filled.env,
                            mission_chunks |-> Append(acc.mission_chunks, filled.current_chunk)])

\* generate_waypoints_for_segment, line 189: n = int(dist / entry["spacing"]); the
\* quotient is not negative for spacing > 0, where int() is the floor
waypoint_count(dist, spacing) == dist \div spacing

\* variant of line 189: the quotient is rounded up
segment_geometry_ceil(entry) ==
    IF ~Has(entry, "start") \/ ~Has(entry, "end") \/ ~Has(entry, "spacing")
    THEN [raised |-> "KeyError", dist |-> 0, n |-> 0]
    ELSE IF entry.spacing = 0
    THEN [raised |-> "ZeroDivisionError", dist |-> calculate_distance(entry.start, entry.end), n |-> 0]
    ELSE [raised |-> "none",
          dist |-> calculate_distance(entry.start, entry.end),
          n |-> waypoint_count(calculate_distance(entry.start, entry.end) + entry.spacing - 1,
                               entry.spacing)]

\* variant of lines 186-189: a segment that lacks a field, or whose spacing is 0, is
\* skipped without a waypoint
segment_geometry_skips(entry) ==
    IF ~Has(entry, "start") \/ ~Has(entry, "end") \/ ~Has(entry, "spacing")
    THEN [raised |-> "none", dist |-> 0, n |-> -1]
    ELSE IF entry.spacing = 0
    THEN [raised |-> "none", dist |-> 0, n |-> -1]
    ELSE [raised |-> "none",
          dist |-> calculate_distance(entry.start, entry.end),
          n |-> waypoint_count(calculate_distance(entry.start, entry.end), entry.spacing)]

\* generate_waypoints_for_segment, lines 186-189: the reads of entry["start"],
\* entry["end"] and entry["spacing"], the distance and the count n; raised names the
\* exception that ends the call there (a missing key, a division by a spacing of 0)
segment_geometry(entry) ==
    IF ~Has(entry, "start") \/ ~Has(entry, "end") \/ ~Has(entry, "spacing")
    THEN [raised |-> "KeyError", dist |-> 0, n |-> 0]
    ELSE IF entry.spacing = 0
    THEN [raised |-> "ZeroDivisionError", dist |-> calculate_distance(entry.start, entry.end), n |-> 0]
    ELSE [raised |-> "none",
          dist |-> calculate_distance(entry.start, entry.end),
          n |-> waypoint_count(calculate_distance(entry.start, entry.end), entry.spacing)]

\* generate_waypoints_for_segment, line 239: the call returns
waypoints_returned(acc) ==
    [env |-> acc.env, mission_chunks |-> acc.mission_chunks, raised |-> "none"]

\* generate_waypoints_for_segment, lines 191-239, with the geometry g of lines 186-189
generate_waypoints_from(entry, e, g) ==
    IF g.raised # "none"
    THEN [env |-> e, mission_chunks |-> <<>>, raised |-> g.raised]
    ELSE waypoints_returned(waypoints_loop(0, g.n, entry, g.dist,
                                           [env |-> e, mission_chunks |-> <<>>]))

\* generate_waypoints_for_segment: the chunks returned, the environment after the
\* call and the exception that ended it ("none" on a return)
generate_waypoints_for_segment(entry, e) ==
    generate_waypoints_from(entry, e, segment_geometry(entry))

-----------------------------------------------------------------------------
(* mission_generator.py (the same code is repeated in main.py) *)

RECURSIVE flatten(_)
flatten(chunks) == IF chunks = <<>> THEN <<>> ELSE Head(chunks) \o flatten(Tail(chunks))

\* reversed(mission_chunks)
reversed(chunks) == [k \in DOMAIN chunks |-> chunks[Len(chunks) + 1 - k]]

\* generate_and_save_missions, line 21
forward_list(chunks) == flatten(chunks)

\* variant of line 24: the flattened list is reversed as a whole
reverse_list_flat(chunks) == reversed(flatten(chunks))

\* generate_and_save_missions, line 24
reverse_list(chunks) == flatten(reversed(chunks))

-----------------------------------------------------------------------------
(* Bounds and input sets *)

\* longest descriptor list handed to process_mission_generation
MaxTasks == 3

\* most segments in one configuration
MaxEntries == 2

\* longest segment (whole units along the x axis)
MaxLength == 2

\* largest waypoint spacing
MaxSpacing == 2

\* all sequences over S of length 0 .. n
SeqsUpTo(S, n) == UNION {[1..k -> S] : k \in 0..n}

\* load_base_environment: only docking stations and navigation goals are loaded
BaseEnvironment ==
    add_object(add_object(Environment, DockingStation("DockingStation")),
               NavigationGoal("DockingStationNavigationGoal"))

\* a graph as the builder leaves it: the base objects, an inspection point that is
\* only reachable through the suffix fallback ("P1-VIS" without "P1"), a navigation
\* goal "S1_1_NavGoal-NavGoal" next to which the builder adds the exact name
\* "S1_1_NavGoal", and one segment with two waypoints
BuiltEnvironment ==
    generate_waypoints_for_segment(
        [name |-> "S1_", start |-> <<0, 0, 0>>, end |-> <<1, 0, 0>>, spacing |-> 1,
         inspections |-> << [type |-> "thermal_inspection", suffix |-> "L", offset |-> <<0, 1, 0>>],
                            [type |-> "visual_inspection", suffix |-> "R", offset |-> <<0, -1, 0>>] >>],
        add_object(add_object(BaseEnvironment, VisualInspectionPoint("P1-VIS")),
                   NavigationGoal("S1_1_NavGoal-NavGoal"))).env

Graphs == {Environment, BuiltEnvironment}

\* task descriptors: the system tasks, tasks of table types on present and absent
\* objects, an absent and an unknown type, a label, an empty label, a label equal to
\* the sentinel
Descriptors ==
    { [name |-> "Undock", type |-> "undock"],
      [name |-> "Undock", type |-> "undock", label |-> ""],
      [name |-> "Dock", type |-> "dock"],
      [name |-> "Wait", type |-> "sleep", duration |-> "10.0"],
      [name |-> "Wait", type |-> "sleep", label |-> PLACEHOLDER],
      [name |-> "S1_0_NavGoal", type |-> "navigation_goal"],
      [name |-> "S1_1_NavGoal", type |-> "navigation_goal", label |-> "end"],
      [name |-> "S1_0LVIT", type |-> "visual_inspection_thermal", action |-> "InspectFromHere"],
      [name |-> "P1", type |-> "visual_inspection_simple"],
      [name |-> "S1_0RVIS"],
      [name |-> "S1_0_NavZone"],
      [name |-> "Ghost", type |-> "navigation_goal"],
      [name |-> "S1_0_NavGoal", type |-> "teleport"] }

\* segment descriptors along the x axis
Inspections ==
    { << [type |-> "thermal_inspection", suffix |-> "L", offset |-> <<0, 1, 0>>],
         [type |-> "visual_inspection", suffix |-> "R", offset |-> <<0, -1, 0>>,
          width |-> "0.5", height |-> "0.4"] >>,
      << [type |-> "thermal_inspection", suffix |-> "L", offset |-> <<0, 1, 0>>],
         [type |-> "audio_inspection", suffix |-> "A", offset |-> <<0, 0, 1>>],
         [type |-> "thermal_inspection", suffix |-> "L", offset |-> <<0, 2, 0>>] >> }

\* the segment of the specification's example
ExampleSegment == [name |-> "S1_", start |-> <<0, 0, 0>>, end |-> <<9, 0, 0>>, spacing |-> 3]

\* segment descriptors that lack start, end or spacing
MalformedEntries ==
    { [name |-> "S2_", end |-> <<1, 0, 0>>, spacing |-> 1],
      [name |-> "S2_", start |-> <<0, 0, 0>>, spacing |-> 1],
      [name |-> "S2_", start |-> <<0, 0, 0>>, end |-> <<1, 0, 0>>] }

\* two segments whose names and inspection suffixes give the same inspection object
\* name: "S1_" + "1" + "0L" + "VIT" and "S1_1" + "0" + "L" + "VIT"
CollidingEntries ==
    { [name |-> "S1_", start |-> <<0, 0, 0>>, end |-> <<1, 0, 0>>, spacing |-> 1,
       inspections |-> << [type |-> "thermal_inspection", suffix |-> "0L", offset |-> <<0, 1, 0>>] >>],
      [name |-> "S1_1", start |-> <<0, 0, 0>>, end |-> <<0, 0, 0>>, spacing |-> 1,
       inspections |-> << [type |-> "thermal_inspection", suffix |-> "L", offset |-> <<0, 1, 0>>] >>] }

\* segment entries: plain segments of length 0, 1 and MaxLength and of every spacing
\* (a spacing of 0 included), segments of the greatest length that carry inspections, an orientation
\* and a tolerance, the example segment, the malformed ones and the colliding ones
Entries ==
    { [name |-> nm, start |-> <<0, 0, 0>>, end |-> <<len, 0, 0>>, spacing |-> sp] :
        nm \in {"S1_", "S2_"}, len \in {0, 1, MaxLength}, sp \in 0..MaxSpacing }
    \cup
    { [name |-> nm, start |-> <<0, 0, 0>>, end |-> <<len, 0, 0>>, spacing |-> sp,
       orientation |-> [w |-> 0, x |-> 0, y |-> 0, z |-> 1],
       translation_tolerance |-> "0.2",
       inspections |-> ins] :
        nm \in {"S1_"}, len \in {MaxLength}, sp \in 1..MaxSpacing, ins \in Inspections }
    \cup {ExampleSegment}
    \cup MalformedEntries
    \cup CollidingEntries

-----------------------------------------------------------------------------
(* Spec: one call of process_mission_generation of each pipeline on the same
   descriptor list and the same graph content *)

MainIdle ==
    /\ entries = <<>>
    /\ entry_idx = 1
    /\ mission_chunks = <<>>
    /\ forward_task_list = <<>>
    /\ reverse_task_list = <<>>
    /\ final_mission_fwd = None
    /\ final_mission_rev = None
    /\ mission_again = None
    /\ legacy_mission_again = None

Init ==
    /\ env \in Graphs
    /\ task_list_data \in SeqsUpTo(Descriptors, MaxTasks)
    /\ mission_tasks = <<>>
    /\ mission = None
    /\ legacy_env = env
    /\ legacy_task_list = task_list_data
    /\ legacy_mission = None
    /\ MainIdle
    /\ pc = "call"

\* variant of the resolution loop: once a task resolved, the inspection point that is
\* reachable through the suffix fallback is added to the graph under its exact name
ResolveTasks_registers_found_objects ==
    /\ pc = "call"
    /\ mission_tasks' = resolve_all(task_list_data, env)
    /\ task_list_data' = labelled(task_list_data)
    /\ env' = IF resolve_all(task_list_data, env) # <<>> /\ has_object(env, "P1-VIS")
              THEN add_object(env, VisualInspectionPoint("P1"))
              ELSE env
    /\ pc' = "resolved"
    /\ UNCHANGED <<mission, legacy_env, legacy_task_list, legacy_mission, entries,
                   entry_idx, mission_chunks, forward_task_list, reverse_task_list,
                   final_mission_fwd, final_mission_rev,
                   mission_again, legacy_mission_again>>

\* task_factory.process_mission_generation(task_list_data, env, "Mission"), lines
\* 178-184: the resolution loop
ResolveTasks ==
    /\ pc = "call"
    /\ mission_tasks' = resolve_all(task_list_data, env)
    /\ task_list_data' = labelled(task_list_data)
    /\ pc' = "resolved"
    /\ UNCHANGED <<env, mission, legacy_env, legacy_task_list, legacy_mission, entries,
                   entry_idx, mission_chunks, forward_task_list, reverse_task_list,
                   final_mission_fwd, final_mission_rev,
                   mission_again, legacy_mission_again>>

\* task_factory.process_mission_generation, lines 186-196: the tasks are linked in
\* place and the Mission is returned
LinkTasks ==
    /\ pc = "resolved"
    /\ mission' = link_and_wrap(mission_tasks, "Mission")
    /\ mission_tasks' = StatesOf(mission')
    /\ pc' = "done"
    /\ UNCHANGED <<env, task_list_data, legacy_env, legacy_task_list, legacy_mission, entries,
                   entry_idx, mission_chunks, forward_task_list, reverse_task_list,
                   final_mission_fwd, final_mission_rev,
                   mission_again, legacy_mission_again>>

\* the template pipeline's process_mission_generation(legacy_task_list, legacy_env,
\* "Mission"), run on the same inputs once the class pipeline has returned
LegacyProcessMissionGeneration ==
    /\ pc = "done"
    /\ legacy_mission = None
    /\ LET r == legacy_process_mission_generation(legacy_task_list, legacy_env, "Mission")
       IN /\ legacy_mission' = r.mission
          /\ legacy_task_list' = r.tasks
    /\ UNCHANGED <<env, task_list_data, mission_tasks, mission, legacy_env, entries,
                   entry_idx, mission_chunks, forward_task_list, reverse_task_list,
                   final_mission_fwd, final_mission_rev, pc,
                   mission_again, legacy_mission_again>>

Next == ResolveTasks \/ LinkTasks \/ LegacyProcessMissionGeneration

Spec == Init /\ [][Next]_vars

-----------------------------------------------------------------------------
(* SpecMain: main.py's loop over the configuration's segments *)

InitMain ==
    /\ env \in {Environment, BaseEnvironment}
    /\ task_list_data = <<>>
    /\ mission_tasks = <<>>
    /\ mission = None
    /\ legacy_env = Environment
    /\ legacy_task_list = <<>>
    /\ legacy_mission = None
    /\ MainIdle
    /\ pc = "segment"

\* main, line 564: generate_waypoints_for_segment(entry, env) for the next entry; an
\* exception raised in the call is caught nowhere and ends main
GenerateWaypoints ==
    /\ pc = "segment"
    /\ entry_idx <= MaxEntries
    /\ \E entry \in Entries :
        LET r == generate_waypoints_for_segment(entry, env)
        IN /\ env' = r.env
           /\ mission_chunks' = IF r.raised = "none" THEN r.mission_chunks ELSE mission_chunks
           /\ entries' = Append(entries, entry)
           /\ pc' = IF r.raised = "none" THEN "missions" ELSE "raised " \o r.raised
    /\ UNCHANGED <<task_list_data, mission_tasks, mission, legacy_env, legacy_task_list,
                   legacy_mission, entry_idx, forward_task_list, reverse_task_list,
                   final_mission_fwd, final_mission_rev,
                   mission_again, legacy_mission_again>>

\* main, line 565: generate_and_save_missions(entry["name"], mission_chunks, env, dir);
\* the chunks' descriptor dicts are the ones the two lists hold
GenerateAndSaveMissions ==
    /\ pc = "missions"
    /\ LET segment_name == entries[Len(entries)].name
           fwd == forward_list(mission_chunks)
           rev == labelled(reverse_list(mission_chunks))
       IN /\ final_mission_fwd' =
                process_mission_generation(fwd, env, segment_name \o "_Forward_Mission")
          /\ final_mission_rev' =
                process_mission_generation(rev, env, segment_name \o "_Reverse_Mission")
          /\ forward_task_list' = labelled(fwd)
          /\ reverse_task_list' = labelled(rev)
    /\ mission_chunks' = [k \in DOMAIN mission_chunks |-> labelled(mission_chunks[k])]
    /\ entry_idx' = entry_idx + 1
    /\ pc' = "segment"
    /\ UNCHANGED <<env, task_list_data, mission_tasks, mission, legacy_env,
                   legacy_task_list, legacy_mission, entries,
                   mission_again, legacy_mission_again>>

\* main, lines 567-570: the loop is over, the environment is saved
SaveEnvironment ==
    /\ pc = "segment"
    /\ pc' = "saved"
    /\ UNCHANGED <<env, task_list_data, mission_tasks, mission, legacy_env, legacy_task_list, legacy_mission,
                   entries, entry_idx, mission_chunks, forward_task_list, reverse_task_list,
                   final_mission_fwd, final_mission_rev,
                   mission_again, legacy_mission_again>>

NextMain == GenerateWaypoints \/ GenerateAndSaveMissions \/ SaveEnvironment

SpecMain == InitMain /\ [][NextMain]_vars

-----------------------------------------------------------------------------
(* SpecTwice: each pipeline's process_mission_generation is called a second time on
   the same descriptor list, as the first call left it, and the same graph *)

\* task_factory.process_mission_generation(task_list_data, env, "Mission") again: the
\* tasks, settings and transitions are constructed anew (MissionTask.__init__), the
\* first Mission's objects are not reachable from the call
ProcessMissionGenerationAgain ==
    /\ pc = "done"
    /\ legacy_mission # None
    /\ mission_again' = process_mission_generation(task_list_data, env, "Mission")
    /\ task_list_data' = labelled(task_list_data)
    /\ pc' = "again"
    /\ UNCHANGED <<env, mission_tasks, mission, legacy_env, legacy_task_list, legacy_mission,
                   entries, entry_idx, mission_chunks, forward_task_list, reverse_task_list,
                   final_mission_fwd, final_mission_rev, legacy_mission_again>>

\* the template pipeline's process_mission_generation(legacy_task_list, legacy_env,
\* "Mission") again: the task dicts are deep copies of the templates
LegacyProcessMissionGenerationAgain ==
    /\ pc = "again"
    /\ LET r == legacy_process_mission_generation(legacy_task_list, legacy_env, "Mission")
       IN /\ legacy_mission_again' = r.mission
          /\ legacy_task_list' = r.tasks
    /\ pc' = "twice"
    /\ UNCHANGED <<env, task_list_data, mission_tasks, mission, legacy_env, legacy_mission,
                   entries, entry_idx, mission_chunks, forward_task_list, reverse_task_list,
                   final_mission_fwd, final_mission_rev, mission_again>>

NextTwice ==
    \/ ResolveTasks
    \/ LinkTasks
    \/ LegacyProcessMissionGeneration
    \/ ProcessMissionGenerationAgain
    \/ LegacyProcessMissionGenerationAgain

SpecTwice == Init /\ [][NextTwice]_vars

-----------------------------------------------------------------------------
(* SpecEntry: process_mission_generation on a list of one descriptor, so that the
   Mission shows what create_task_entry made of that descriptor, and on lists of
   two descriptors whose labels are free text, the names of the exit states
   included *)

\* a graph in which the name "S1_0RVIS" is held by the inspection point the builder
\* added and, behind it, by a navigation zone
ShadowedEnvironment == add_object(BuiltEnvironment, NavigationZone("S1_0RVIS"))

EntryGraphs == {Environment, BaseEnvironment, BuiltEnvironment, ShadowedEnvironment}

\* the descriptors of Spec and more of them: system tasks with and without label,
\* docking_station and duration, descriptors without a type or with an empty one
\* that name an inspection point, a docking station, a navigation goal, an object
\* that is in the graph only under name-suffix
EntryDescriptors ==
    Descriptors \cup
    { [name |-> "Undock", type |-> "undock", label |-> "Leave"],
      [name |-> "Dock", type |-> "dock", docking_station |-> "Station1"],
      [name |-> "Dock", type |-> "dock", label |-> "Return", docking_station |-> "Station1"],
      [name |-> "Wait", type |-> "sleep"],
      [name |-> "Wait", type |-> "sleep", label |-> "Pause", duration |-> "2.5"],
      [name |-> "S1_0RVIS", type |-> ""],
      [name |-> "S1_0LVIT", type |-> "", label |-> "left", action |-> "InspectFromHere"],
      [name |-> "S1_1_NavGoal"],
      [name |-> "DockingStation"],
      [name |-> "DockingStation", type |-> ""],
      [name |-> "P1"] }

\* descriptors whose label is the task's whole name: an exit state's name, the
\* sentinel, a plain word; and a navigation descriptor
LabelledDescriptors ==
    { [name |-> "Wait", type |-> "sleep", label |-> "success"],
      [name |-> "Undock", type |-> "undock", label |-> "failure"],
      [name |-> "Wait", type |-> "sleep", label |-> PLACEHOLDER],
      [name |-> "Undock", type |-> "undock", label |-> "Leave"],
      [name |-> "Dock", type |-> "dock"],
      [name |-> "S1_0_NavGoal", type |-> "navigation_goal"] }

InitEntry ==
    /\ env \in EntryGraphs
    /\ task_list_data \in { << d >> : d \in EntryDescriptors \cup LabelledDescriptors }
                           \cup (LabelledDescriptors \X LabelledDescriptors)
    /\ mission_tasks = <<>>
    /\ mission = None
    /\ legacy_env = env
    /\ legacy_task_list = task_list_data
    /\ legacy_mission = None
    /\ MainIdle
    /\ pc = "call"

NextEntry == ResolveTasks \/ LinkTasks

SpecEntry == InitEntry /\ [][NextEntry]_vars

TypeOK ==
    pc \in {"call", "resolved", "done", "again", "twice", "segment", "missions", "saved",
            "raised KeyError", "raised ZeroDivisionError"}

-----------------------------------------------------------------------------
(* Properties of the linked Mission (Spec) *)

\* the Mission of the class pipeline has been returned
Returned == pc = "done"

Tasks == StatesOf(mission)

\* transition k of a task of class cls carries the sentinel right after resolution
HeldPlaceholder(cls, k) == create_default_transitions(cls)[k].transition = PLACEHOLDER

TaskNames(ts) == {ts[i].name : i \in DOMAIN ts}

\* C1: in the returned Mission, every transition of a task before the last that held
\* the sentinel after resolution targets the name of the task right after it and has
\* kept outcome and transition_to_state = TRUE.
C1_LinkedToNext ==
    Returned =>
        \A i \in 1..(Len(Tasks) - 1) : \A k \in DOMAIN Tasks[i].transitions :
            HeldPlaceholder(Tasks[i].cls, k) =>
                /\ Tasks[i].transitions[k].transition = Tasks[i + 1].name
                /\ Tasks[i].transitions[k].transition_to_state = TRUE
                /\ Tasks[i].transitions[k].outcome =
                        create_default_transitions(Tasks[i].cls)[k].outcome

\* a Mission of three tasks whose middle task is a 4-outcome inspection linked to the third
C1_Witness ==
    /\ Returned
    /\ Len(Tasks) = 3
    /\ Tasks[2].cls = "InspectionTask"
    /\ Tasks[2].transitions[1].transition = Tasks[3].name
    /\ Tasks[3].name # Tasks[2].name

\* C2: in the returned Mission, every transition of the last task that held the
\* sentinel after resolution has transition_to_state = FALSE and targets "success"
\* for the outcomes success and normal and "failure" for any other outcome.
C2_LastTaskExits ==
    (Returned /\ Len(Tasks) > 0) =>
        LET last == Tasks[Len(Tasks)]
        IN \A k \in DOMAIN last.transitions :
            HeldPlaceholder(last.cls, k) =>
                /\ last.transitions[k].transition_to_state = FALSE
                /\ last.transitions[k].transition =
                        IF last.transitions[k].outcome \in {"success", "normal"}
                        THEN "success" ELSE "failure"

\* the last task is a 4-outcome inspection: anomaly and failure exit to failure,
\* normal exits to success
C2_Witness ==
    /\ Returned
    /\ Len(Tasks) > 1
    /\ Tasks[Len(Tasks)].cls = "InspectionTask"
    /\ Tasks[Len(Tasks)].transitions[1] = Transition("anomaly", "failure", FALSE)
    /\ Tasks[Len(Tasks)].transitions[3] = Transition("normal", "success", FALSE)

\* C3 as stated: no transition of the returned Mission has the sentinel as target.
C3_NoSentinelTarget ==
    Returned =>
        \A i \in DOMAIN Tasks : \A k \in DOMAIN Tasks[i].transitions :
            Tasks[i].transitions[k].transition # PLACEHOLDER

\* C3 amended: a transition of the returned Mission has the sentinel as target only
\* when the task right after it is itself named by the sentinel string; every other
\* sentinel has been replaced by the next task's name or by an exit state.
C3_SentinelOnlyAsName ==
    Returned =>
        \A i \in DOMAIN Tasks : \A k \in DOMAIN Tasks[i].transitions :
            Tasks[i].transitions[k].transition = PLACEHOLDER =>
                /\ i < Len(Tasks)
                /\ Tasks[i + 1].name = PLACEHOLDER

\* two or more tasks, none named by the sentinel, the first one a navigation task
\* whose two continuing outcomes were rewritten
C3_Witness ==
    /\ Returned
    /\ Len(Tasks) >= 2
    /\ PLACEHOLDER \notin TaskNames(Tasks)
    /\ Tasks[1].cls = "NavigationTask"
    /\ Tasks[1].transitions[1].transition = Tasks[2].name

\* C4: every transition target of the returned Mission is the name of a task of that
\* Mission or one of success, failure, preemption.
C4_TargetsAreStates ==
    Returned =>
        \A i \in DOMAIN Tasks : \A k \in DOMAIN Tasks[i].transitions :
            Tasks[i].transitions[k].transition \in TaskNames(Tasks) \cup ExitStates

\* a descriptor was dropped and the Mission still has tasks that continue and exit
C4_Witness ==
    /\ Returned
    /\ Len(Tasks) >= 2
    /\ Len(Tasks) < Len(task_list_data)
    /\ \E k \in DOMAIN Tasks[1].transitions : Tasks[1].transitions[k].transition_to_state

\* the descriptor can be resolved against the graph: its type (given, or inferred
\* from the object of its name) is a system type, or a type of the static table whose
\* object is in the graph under the name or under name-suffix
Resolvable(task, e) ==
    LET given == Get(task, "type", "")
        type == IF given # "" THEN given
                ELSE IF has_object(e, task.name) THEN get_object(e, task.name).type ELSE ""
    IN \/ type \in {"undock", "dock", "sleep"}
       \/ /\ type \in DOMAIN TASK_CONFIGS
          /\ \/ has_object(e, task.name)
             \/ has_object(e, task.name \o "-" \o TASK_CONFIGS[type].item_suffix)

ResolvableCount(task_list, e) ==
    Cardinality({i \in DOMAIN task_list : Resolvable(task_list[i], e)})

\* C5: a descriptor of unknown type or with an absent object yields no state: each
\* pipeline's Mission has exactly one state per resolvable descriptor.
C5_DroppedYieldNoState ==
    /\ Returned => Len(Tasks) = ResolvableCount(task_list_data, env)
    /\ legacy_mission # None =>
            Len(legacy_mission.settings[4].value) = ResolvableCount(legacy_task_list, legacy_env)

\* C6: no two objects of the environment graph share a name.
C6_ObjectNamesUnique ==
    \A i, j \in DOMAIN env.objects :
        i # j => env.objects[i].name # env.objects[j].name

\* C7: no two tasks of the returned Mission share a name.
C7_TaskNamesUnique ==
    Returned =>
        \A i, j \in DOMAIN Tasks : i # j => Tasks[i].name # Tasks[j].name

Continues(task) ==
    {k \in DOMAIN task.transitions : task.transitions[k].transition_to_state}

\* the last task has no continuing transition and exits only to reserved states
LastTaskExits(ts) ==
    ts # <<>> =>
        /\ Continues(ts[Len(ts)]) = {}
        /\ \A k \in DOMAIN ts[Len(ts)].transitions :
                ts[Len(ts)].transitions[k].transition \in ExitStates

\* C8 as stated: the continuing transitions form one chain over all tasks, whatever
\* their kinds: the initial state is the first task, every task before the last
\* continues, always to the task right after it, and the last task only exits.
C8_ChainOverAllTasks ==
    Returned =>
        /\ InitialStateOf(mission) = IF Tasks # <<>> THEN Tasks[1].name ELSE ""
        /\ \A i \in 1..(Len(Tasks) - 1) :
                /\ Continues(Tasks[i]) # {}
                /\ \A k \in Continues(Tasks[i]) :
                        Tasks[i].transitions[k].transition = Tasks[i + 1].name
        /\ LastTaskExits(Tasks)

\* C8 amended: the same chain, except that a Dock task standing before the last
\* position has no continuing transition, so the chain stops at it.
C8_ChainStopsAtDock ==
    Returned =>
        /\ InitialStateOf(mission) = IF Tasks # <<>> THEN Tasks[1].name ELSE ""
        /\ \A i \in 1..(Len(Tasks) - 1) :
                /\ (Tasks[i].cls # "DockTask") <=> (Continues(Tasks[i]) # {})
                /\ \A k \in Continues(Tasks[i]) :
                        Tasks[i].transitions[k].transition = Tasks[i + 1].name
        /\ LastTaskExits(Tasks)

\* Undock, then Sleep, then Dock: a chain over system tasks that ends in the Dock
C8_Witness ==
    /\ Returned
    /\ Len(Tasks) = 3
    /\ Tasks[1].cls = "UndockTask"
    /\ Tasks[2].cls = "SleepTask"
    /\ Tasks[3].cls = "DockTask"
    /\ Tasks[1].transitions[3].transition = Tasks[2].name

\* C9 as stated: a resolved Sleep or Undock task has the SimpleInspection default
\* transitions, failure and success both continuing.
C9_SleepUndockLikeSimpleInspection ==
    pc = "resolved" =>
        \A i \in DOMAIN mission_tasks :
            mission_tasks[i].cls \in {"SleepTask", "UndockTask"} =>
                mission_tasks[i].transitions = << Transition("failure", PLACEHOLDER, TRUE),
                                                  Transition("success", PLACEHOLDER, TRUE),
                                                  Transition("preemption", "preemption", FALSE) >>

\* C9 amended: a resolved Sleep or Undock task has three outcomes of which only
\* success continues; failure exits to failure and preemption to preemption.  The
\* template pipeline's Sleep and Undock states exit on failure as well.
C9_SleepUndockOnlySuccessContinues ==
    /\ pc = "resolved" =>
        \A i \in DOMAIN mission_tasks :
            mission_tasks[i].cls \in {"SleepTask", "UndockTask"} =>
                mission_tasks[i].transitions = << Transition("failure", "failure", FALSE),
                                                  Transition("preemption", "preemption", FALSE),
                                                  Transition("success", PLACEHOLDER, TRUE) >>
    /\ legacy_mission # None =>
        \A i \in DOMAIN legacy_mission.settings[4].value :
            LET t == legacy_mission.settings[4].value[i]
            IN t.type \in {"basic_behavior_plugins::Sleep", "system_behavior_plugins::Walk"} =>
                /\ t.transitions[1] = Transition("failure", "failure", FALSE)
                /\ t.transitions[2] = Transition("preemption", "preemption", FALSE)
                /\ t.transitions[3].outcome = "success"

\* a Sleep and an Undock task have just been resolved
C9_Witness ==
    /\ pc = "resolved"
    /\ \E i, j \in DOMAIN mission_tasks :
        /\ mission_tasks[i].cls = "SleepTask"
        /\ mission_tasks[j].cls = "UndockTask"

-----------------------------------------------------------------------------
(* Properties of the segment loop (SpecMain) *)

\* the two task lists of the segment processed last are in place
MissionsGenerated == pc \in {"segment", "saved"} /\ entry_idx > 1

\* total length of chunks a .. b
RECURSIVE SumLens(_, _, _)
SumLens(chunks, a, b) == IF a > b THEN 0 ELSE Len(chunks[a]) + SumLens(chunks, a + 1, b)

Count(list, d) == Cardinality({p \in DOMAIN list : list[p] = d})

\* every descriptor that is not a navigation descriptor follows, with no other
\* navigation descriptor in between, the navigation descriptor that heads its chunk
FollowsOwnNavigation(list, chunks) ==
    \A p \in DOMAIN list :
        list[p].type # "navigation_goal" =>
            \E q \in 1..(p - 1) :
                /\ list[q].type = "navigation_goal"
                /\ \A r \in (q + 1)..(p - 1) : list[r].type # "navigation_goal"
                /\ \E j \in DOMAIN chunks :
                    /\ chunks[j][1] = list[q]
                    /\ (p - q + 1) \in DOMAIN chunks[j]
                    /\ chunks[j][p - q + 1] = list[p]

\* C10: the forward list is the chunks in order, the reverse list is the chunks in
\* reverse order, each chunk in its own order; in both lists every inspection
\* descriptor follows the navigation descriptor of its chunk; both lists hold the
\* same descriptors the same number of times.
C10_ReversalKeepsChunks ==
    MissionsGenerated =>
        LET m == Len(mission_chunks)
        IN /\ Len(forward_task_list) = SumLens(mission_chunks, 1, m)
           /\ Len(reverse_task_list) = SumLens(mission_chunks, 1, m)
           /\ \A j \in 1..m : \A q \in DOMAIN mission_chunks[j] :
                /\ forward_task_list[SumLens(mission_chunks, 1, j - 1) + q] = mission_chunks[j][q]
                /\ reverse_task_list[SumLens(mission_chunks, j + 1, m) + q] = mission_chunks[j][q]
           /\ FollowsOwnNavigation(forward_task_list, mission_chunks)
           /\ FollowsOwnNavigation(reverse_task_list, mission_chunks)
           /\ \A d \in Range(forward_task_list) \cup Range(reverse_task_list) :
                Count(forward_task_list, d) = Count(reverse_task_list, d)

\* three waypoints with inspections: the reverse list starts with the last waypoint's
\* navigation descriptor, followed by that waypoint's first inspection
C10_Witness ==
    /\ MissionsGenerated
    /\ Len(mission_chunks) = 3
    /\ Len(mission_chunks[3]) >= 3
    /\ reverse_task_list[1] = mission_chunks[3][1]
    /\ reverse_task_list[2] = mission_chunks[3][2]
    /\ reverse_task_list[2].type = "visual_inspection_thermal"
    /\ forward_task_list[1] = mission_chunks[1][1]

-----------------------------------------------------------------------------
(* Properties of the waypoint builder (SpecMain) *)

\* the step of main that calls generate_waypoints_for_segment on the entry now last
\* in entries
SegmentCalled == pc = "segment" /\ entries' # entries

SegmentOf(es) == es[Len(es)]

WellFormed(entry) == Has(entry, "start") /\ Has(entry, "end") /\ Has(entry, "spacing")

CountType(e, t) == Cardinality({k \in DOMAIN e.objects : e.objects[k].type = t})

\* floor(dist / spacing) for spacing > 0: the q with q * spacing <= dist < (q + 1) * spacing
FloorQuotient(dist, spacing) ==
    CHOOSE q \in 0..dist : q * spacing <= dist /\ dist < (q + 1) * spacing

\* the point <<x, y, z>> of whole coordinates as a Position
PositionAt(point) ==
    [x |-> FracOfInt(point[1]), y |-> FracOfInt(point[2]), z |-> FracOfInt(point[3])]

\* C11: a call of generate_waypoints_for_segment on a segment with spacing > 0
\* returns floor(distance(start, end) / spacing) + 1 chunks and adds that many
\* navigation goals and that many navigation zones to the graph.
C11_WaypointCount ==
    [][ (SegmentCalled /\ WellFormed(SegmentOf(entries')) /\ SegmentOf(entries').spacing > 0) =>
            LET entry == SegmentOf(entries')
                count == FloorQuotient(calculate_distance(entry.start, entry.end), entry.spacing) + 1
            IN /\ pc' = "missions"
               /\ Len(mission_chunks') = count
               /\ CountType(env', "navigation_goal") = CountType(env, "navigation_goal") + count
               /\ CountType(env', "navigation_zone") = CountType(env, "navigation_zone") + count
      ]_vars

\* a segment shorter than its spacing has given one waypoint, a second segment whose
\* length is a multiple of its spacing has given more than one
C11_Witness ==
    /\ pc = "missions"
    /\ Len(entries) = 2
    /\ WellFormed(entries[1]) /\ entries[1].spacing > entries[1].end[1] /\ entries[1].end[1] > 0
    /\ Len(mission_chunks) > 1
    /\ CountType(env, "navigation_zone") = Len(mission_chunks) + 1

\* C12: the first waypoint a call of generate_waypoints_for_segment generates is at
\* the segment's start; a segment whose start equals its end raises no division by
\* zero and has every waypoint at start.
C12_FirstWaypointAtStart ==
    [][ (SegmentCalled /\ WellFormed(SegmentOf(entries'))) =>
            LET entry == SegmentOf(entries')
                added == { k \in DOMAIN env'.objects :
                            k > Len(env.objects) /\ env'.objects[k].type = "navigation_goal" }
            IN /\ pc' = "missions" =>
                    env'.objects[Len(env.objects) + 1].pose.pose.position = PositionAt(entry.start)
               /\ entry.start = entry.end =>
                    /\ pc' # "raised ZeroDivisionError"
                    /\ \A k \in added :
                        env'.objects[k].pose.pose.position = PositionAt(entry.start)
      ]_vars

\* C13: the example segment gives four chunks, each the navigation descriptor of
\* S1_0_NavGoal .. S1_3_NavGoal in that order, and the four navigation goals of those
\* names stand at x = 0, 3, 6, 9 with y = z = 0.
C13_ExampleSegment ==
    (pc = "missions" /\ SegmentOf(entries) = ExampleSegment) =>
        /\ Len(mission_chunks) = 4
        /\ CountType(env, "navigation_goal") >= 4
        /\ \A i \in 1..4 :
            LET goal == env.objects[Len(env.objects) - 8 + 2 * i - 1]
                goal_name == "S1_" \o ToString(i - 1) \o "_NavGoal"
            IN /\ mission_chunks[i] = << [name |-> goal_name, type |-> "navigation_goal"] >>
               /\ goal.name = goal_name
               /\ goal.type = "navigation_goal"
               /\ goal.pose.pose.position = PositionAt(<<3 * (i - 1), 0, 0>>)

\* the example segment has been processed as the second segment of a run
C13_Witness ==
    /\ pc = "missions"
    /\ Len(entries) = 2
    /\ SegmentOf(entries) = ExampleSegment
    /\ Len(mission_chunks) = 4
    /\ env.objects[Len(env.objects) - 1].pose.pose.position.x = FracOfInt(9)

\* C20: a segment that lacks start, end or spacing ends the call with an error
\* before the graph, the chunks or the missions change, and main takes no step after
\* the error: no later segment is processed and nothing is saved.
C20_MalformedSegmentAborts ==
    [][ /\ (SegmentCalled /\ ~WellFormed(SegmentOf(entries'))) =>
                /\ pc' = "raised KeyError"
                /\ env' = env
                /\ mission_chunks' = mission_chunks
                /\ forward_task_list' = forward_task_list
                /\ reverse_task_list' = reverse_task_list
                /\ final_mission_fwd' = final_mission_fwd
                /\ final_mission_rev' = final_mission_rev
        /\ pc # "raised KeyError"
      ]_vars

\* the second segment of a run lacks a field: the run has stopped with the first
\* segment's objects and chunks in place
C20_Witness ==
    /\ pc = "raised KeyError"
    /\ Len(entries) = 2
    /\ ~WellFormed(entries[2])
    /\ WellFormed(entries[1])
    /\ mission_chunks # <<>>
    /\ CountType(env, "navigation_zone") = Len(mission_chunks)

-----------------------------------------------------------------------------
(* Properties of the resolver and the linker (Spec), continued *)

\* the class pipeline has resolved the descriptor list
Resolved == pc \in {"resolved", "done"}

LegacyReturned == legacy_mission # None

LegacyTasks == legacy_mission.settings[4].value

\* the descriptor names a type of the static table
OfTableType(task) == Has(task, "type") /\ task.type \in DOMAIN TASK_CONFIGS

\* place, among the class pipeline's tasks, of the task of descriptor i
TaskIndex(i) == ResolvableCount(SubSeq(task_list_data, 1, i), env)

\* the template pipeline keeps every descriptor whose type, given or inferred from
\* the object of its name, is in its table
LegacyKept(task, e) ==
    IF Has(task, "type") THEN task.type \in DOMAIN task_data
    ELSE get_item_from_name(e, task.name) # None
         /\ get_item_from_name(e, task.name).type \in DOMAIN task_data

\* place, among the template pipeline's tasks, of the task of descriptor i
LegacyTaskIndex(i) ==
    Cardinality({j \in 1..i : LegacyKept(task_list_data[j], env)})

SuffixedName(task) == task.name \o "-" \o TASK_CONFIGS[task.type].item_suffix

\* C14: a descriptor of a table type whose object is in the graph only under
\* name-suffix resolves, in both pipelines, to a task whose first setting is the
\* suffixed name; when the exact name is in the graph the setting is the exact name;
\* in both cases the task's name is the type's prefix and the descriptor's label.
C14_SuffixFallback ==
    \A i \in DOMAIN task_list_data :
        LET task == task_list_data[i]
        IN (OfTableType(task) /\ (has_object(env, task.name) \/ has_object(env, SuffixedName(task)))) =>
            LET reference == IF has_object(env, task.name) THEN task.name ELSE SuffixedName(task)
                task_name == TASK_CONFIGS[task.type].task_prefix \o " " \o Get(task, "label", task.name)
            IN /\ Resolved =>
                    /\ TaskIndex(i) \in DOMAIN mission_tasks
                    /\ mission_tasks[TaskIndex(i)].name = task_name
                    /\ mission_tasks[TaskIndex(i)].settings[1].value = reference
               /\ LegacyReturned =>
                    /\ LegacyTaskIndex(i) \in DOMAIN LegacyTasks
                    /\ LegacyTasks[LegacyTaskIndex(i)].name = task_name
                    /\ LegacyTasks[LegacyTaskIndex(i)].settings[1].value = reference

\* "P1" is in the graph only as "P1-VIS": both pipelines have built "Inspect P1" on
\* "P1-VIS", after a descriptor the class pipeline dropped
C14_Witness ==
    /\ Returned
    /\ LegacyReturned
    /\ ~has_object(env, "P1")
    /\ \E i \in DOMAIN task_list_data :
        /\ task_list_data[i].name = "P1"
        /\ i > 1
        /\ TaskIndex(i) < i
        /\ TaskIndex(i) \in DOMAIN mission_tasks
        /\ mission_tasks[TaskIndex(i)].name = "Inspect P1"
        /\ mission_tasks[TaskIndex(i)].settings[1].value = "P1-VIS"
        /\ LegacyTasks[LegacyTaskIndex(i)].settings[1].value = "P1-VIS"

LegacyInitialState == legacy_mission.settings[1].value

\* C16: in both pipelines the Mission's initial state is the name of the first task of
\* its task list, and it is the empty string exactly when the task list is empty.
C16_InitialStateFirstTask ==
    /\ Returned =>
            /\ Tasks # <<>> => InitialStateOf(mission) = Tasks[1].name
            /\ InitialStateOf(mission) = "" <=> Tasks = <<>>
    /\ LegacyReturned =>
            /\ LegacyTasks # <<>> => LegacyInitialState = LegacyTasks[1].name
            /\ LegacyInitialState = "" <=> LegacyTasks = <<>>

\* C16 as the code has it: the initial state is the first task's name, and the empty
\* string when the task list is empty; a first task whose own name is empty gives an
\* empty initial state too.
C16_InitialStateIsFirstName ==
    /\ Returned =>
            InitialStateOf(mission) = IF Tasks = <<>> THEN "" ELSE Tasks[1].name
    /\ LegacyReturned =>
            LegacyInitialState = IF LegacyTasks = <<>> THEN "" ELSE LegacyTasks[1].name

\* the first descriptor was dropped by the class pipeline: the initial state is the
\* name of the task of a later descriptor, and that task is not the last
C16_Witness ==
    /\ Returned
    /\ LegacyReturned
    /\ Len(Tasks) = 2
    /\ Len(task_list_data) = 3
    /\ ~Resolvable(task_list_data[1], env)
    /\ InitialStateOf(mission) = Tasks[1].name
    /\ Tasks[1].name # Tasks[2].name
    /\ Tasks[1].name # ""
    /\ LegacyInitialState = LegacyTasks[1].name

\* the task has a preemption transition that halts to the exit state 'preemption'
HaltsOnPreemption(task) ==
    \E k \in DOMAIN task.transitions :
        task.transitions[k] = Transition("preemption", "preemption", FALSE)

\* C17: every resolved task, before and after linking, has the transition preemption ->
\* 'preemption' with transition_to_state = FALSE, and the linking step (link_to on every
\* task but the last, set_as_final on the last) leaves every transition whose target
\* was not the placeholder as it was, in target, outcome and flag, and every outcome in
\* its place.
C17_HaltTransitionsUnchanged ==
    [][ /\ Resolved => \A i \in DOMAIN mission_tasks : HaltsOnPreemption(mission_tasks[i])
        /\ pc = "resolved" =>
                /\ DOMAIN mission_tasks' = DOMAIN mission_tasks
                /\ \A i \in DOMAIN mission_tasks :
                    /\ HaltsOnPreemption(mission_tasks'[i])
                    /\ DOMAIN mission_tasks'[i].transitions = DOMAIN mission_tasks[i].transitions
                    /\ \A k \in DOMAIN mission_tasks[i].transitions :
                        /\ mission_tasks'[i].transitions[k].outcome =
                                mission_tasks[i].transitions[k].outcome
                        /\ mission_tasks[i].transitions[k].transition # PLACEHOLDER =>
                                mission_tasks'[i].transitions[k] = mission_tasks[i].transitions[k]
      ]_vars

\* three tasks are linked: an Undock task in the middle keeps failure -> 'failure', the
\* first and the last task keep their preemption transition, the first one continues
C17_Witness ==
    /\ Returned
    /\ Len(Tasks) = 3
    /\ Tasks[2].cls = "UndockTask"
    /\ Tasks[2].transitions[1] = Transition("failure", "failure", FALSE)
    /\ Tasks[2].transitions[3].transition = Tasks[3].name
    /\ Tasks[1].cls = "NavigationTask"
    /\ Tasks[1].transitions[2] = Transition("preemption", "preemption", FALSE)
    /\ Tasks[1].transitions[1].transition = Tasks[2].name
    /\ Tasks[3].cls = "InspectionTask"
    /\ Tasks[3].transitions[4] = Transition("preemption", "preemption", FALSE)

\* the three outcomes of a Dock task, each halting at the exit state of its own name
DockTransitions ==
    << Transition("failure", "failure", FALSE),
       Transition("preemption", "preemption", FALSE),
       Transition("success", "success", FALSE) >>

\* C18: a Dock task's three outcomes failure, preemption and success target the exit
\* states 'failure', 'preemption' and 'success' with transition_to_state = FALSE, in
\* the class pipeline both before and after linking and in the template pipeline's
\* returned mission, at whatever place of the list the Dock task stands: it never
\* continues to another task.
C18_DockAlwaysTerminal ==
    /\ Resolved =>
            \A i \in DOMAIN mission_tasks :
                mission_tasks[i].cls = "DockTask" =>
                    mission_tasks[i].transitions = DockTransitions
    /\ Returned =>
            \A i \in DOMAIN Tasks :
                Tasks[i].cls = "DockTask" => Tasks[i].transitions = DockTransitions
    /\ LegacyReturned =>
            \A i \in DOMAIN LegacyTasks :
                LegacyTasks[i].type = "docking_behavior_plugins::Dock" =>
                    LegacyTasks[i].transitions = DockTransitions

\* both pipelines returned three tasks with a Dock task first and a task that is not
\* a Dock task after it: the first Dock task was linked to a successor and still halts
C18_Witness ==
    /\ Returned
    /\ LegacyReturned
    /\ Len(Tasks) = 3
    /\ Tasks[1].cls = "DockTask"
    /\ Tasks[2].cls # "DockTask"
    /\ Tasks[1].transitions = DockTransitions
    /\ Len(LegacyTasks) = 3
    /\ LegacyTasks[1].type = "docking_behavior_plugins::Dock"
    /\ LegacyTasks[2].type # "docking_behavior_plugins::Dock"
    /\ LegacyTasks[1].transitions = DockTransitions

KnownInspections(entry) ==
    IF Has(entry, "inspections")
    THEN SelectSeq(entry.inspections,
                   LAMBDA c : c.type \in {"thermal_inspection", "visual_inspection"})
    ELSE <<>>

\* the name of the object of inspection entry c at waypoint i of the segment
InspectionName(entry, i, c) ==
    entry.name \o ToString(i) \o c.suffix \o
        (IF c.type = "thermal_inspection" THEN "VIT" ELSE "VIS")

WaypointInspectionNames(entry, i) ==
    [k \in DOMAIN KnownInspections(entry) |-> InspectionName(entry, i, KnownInspections(entry)[k])]

GoalName(entry, i) == entry.name \o ToString(i) \o "_NavGoal"

ZoneName(entry, i) == entry.name \o ToString(i) \o "_NavZone"

\* the names waypoint i of a segment is expected to add to the object list, in order
ExpectedWaypointObjects(entry, i) ==
    << GoalName(entry, i), ZoneName(entry, i) >> \o WaypointInspectionNames(entry, i)

\* the relations waypoint i of a segment is expected to add, in order
ExpectedWaypointRelations(entry, i) ==
    << ObjectRelation(GoalName(entry, i), ZoneName(entry, i)) >> \o
    [k \in DOMAIN WaypointInspectionNames(entry, i) |->
        ObjectRelation(ZoneName(entry, i), WaypointInspectionNames(entry, i)[k])]

\* the names of the descriptors of the chunk of waypoint i, in order
ExpectedChunkNames(entry, i) == << GoalName(entry, i) >> \o WaypointInspectionNames(entry, i)

RECURSIVE JoinAll(_)
JoinAll(seqs) == IF seqs = <<>> THEN <<>> ELSE Head(seqs) \o JoinAll(Tail(seqs))

NamesOf(seq) == [k \in DOMAIN seq |-> seq[k].name]

\* the last waypoint index of a segment with spacing > 0
LastIndex(entry) == FloorQuotient(calculate_distance(entry.start, entry.end), entry.spacing)

\* C21: a call of generate_waypoints_for_segment that returns leaves the objects and
\* relations of the earlier segments in front as they were and appends, waypoint index
\* by index, the navigation goal, its navigation zone and the waypoint's inspection
\* objects in the order of the segment's inspections list; the relations (goal under
\* zone, then zone under each inspection) and the chunks follow the same order.  The
\* sequences are a function of the input alone, so two runs on the same input give
\* the same sequences.
C21_OutputOrderIsInputOrder ==
    [][ (SegmentCalled /\ pc' = "missions") =>
            LET entry == SegmentOf(entries')
                n == LastIndex(entry)
            IN /\ SubSeq(env'.objects, 1, Len(env.objects)) = env.objects
               /\ NamesOf(SubSeq(env'.objects, Len(env.objects) + 1, Len(env'.objects))) =
                    JoinAll([i \in 1..(n + 1) |-> ExpectedWaypointObjects(entry, i - 1)])
               /\ SubSeq(env'.object_relations, 1, Len(env.object_relations)) =
                    env.object_relations
               /\ SubSeq(env'.object_relations, Len(env.object_relations) + 1,
                         Len(env'.object_relations)) =
                    JoinAll([i \in 1..(n + 1) |-> ExpectedWaypointRelations(entry, i - 1)])
               /\ [k \in DOMAIN mission_chunks' |-> NamesOf(mission_chunks'[k])] =
                    [i \in 1..(n + 1) |-> ExpectedChunkNames(entry, i - 1)]
      ]_vars

\* the second segment of a run has more than one waypoint and two inspection objects
\* at each, added behind the objects of the first segment
C21_Witness ==
    /\ pc = "missions"
    /\ Len(entries) = 2
    /\ WellFormed(entries[1]) /\ entries[1].spacing > 0
    /\ Len(mission_chunks) > 1
    /\ Len(KnownInspections(entries[2])) = 2
    /\ Len(mission_chunks[2]) = 3
    /\ env.objects[Len(env.objects)].name = InspectionName(entries[2], Len(mission_chunks) - 1,
                                                          KnownInspections(entries[2])[2])
    /\ env.objects[Len(env.objects) - 3].name = GoalName(entries[2], Len(mission_chunks) - 1)

\* the segments of the run whose call returned
ReturnedSegments ==
    { j \in DOMAIN entries : WellFormed(entries[j]) /\ entries[j].spacing > 0 }

\* C22: for every inspection object the waypoint builder created, the walk of
\* get_nav_goal_from_inspection (first relation whose parent is the inspection gives
\* the zone, first relation whose parent is that zone gives the goal) returns the name
\* of the navigation goal of the same waypoint index of the same segment, and the
\* zone on the way is that waypoint's zone.
C22_InspectionWalksToItsGoal ==
    \A j \in ReturnedSegments :
        \A i \in 0..LastIndex(entries[j]) :
            \A k \in DOMAIN KnownInspections(entries[j]) :
                LET inspection_name == InspectionName(entries[j], i, KnownInspections(entries[j])[k])
                IN /\ get_nav_zone_from_inspection(env, inspection_name) =
                        [found |-> TRUE, name |-> ZoneName(entries[j], i)]
                   /\ get_nav_goal_from_inspection(env, inspection_name) =
                        [found |-> TRUE, name |-> GoalName(entries[j], i)]

\* the step in which create_task_entry is called on the one descriptor of the list
EntryCalled == pc = "call" /\ Len(task_list_data) = 1

\* the name a task gets from a descriptor without prefix: the label, the name when no
\* label is given
LabelOrName(task) == IF Has(task, "label") THEN task.label ELSE task.name

\* C23: a descriptor of type undock, dock or sleep resolves to the system task of that
\* type whatever the graph holds: Undock has no settings, Dock has the one setting
\* docking_station with the descriptor's docking_station or 'Suggested', Sleep has the
\* one setting duration with the descriptor's duration or 5.0, and the task's name is
\* the descriptor's label, or its name when it has no label.
C23_SystemTasksNeedNoGraph ==
    [][ (EntryCalled /\ Get(task_list_data[1], "type", "") \in {"undock", "dock", "sleep"}) =>
            LET task == task_list_data[1]
            IN /\ Len(mission_tasks') = 1
               /\ mission_tasks'[1].name = LabelOrName(task)
               /\ task.type = "undock" =>
                    /\ mission_tasks'[1].cls = "UndockTask"
                    /\ mission_tasks'[1].settings = <<>>
               /\ task.type = "dock" =>
                    /\ mission_tasks'[1].cls = "DockTask"
                    /\ mission_tasks'[1].settings =
                        << Setting("docking_station", "DockingStation",
                                   IF Has(task, "docking_station")
                                   THEN task.docking_station ELSE "Suggested") >>
               /\ task.type = "sleep" =>
                    /\ mission_tasks'[1].cls = "SleepTask"
                    /\ mission_tasks'[1].settings =
                        << Setting("duration", "double",
                                   IF Has(task, "duration") THEN task.duration ELSE "5.0") >>
      ]_vars

\* against the empty graph a Dock descriptor with a label and a docking_station gave
\* the Dock task of that label and that station
C23_Witness ==
    /\ pc = "resolved"
    /\ env = Environment
    /\ Len(task_list_data) = 1
    /\ Get(task_list_data[1], "type", "") = "dock"
    /\ Len(mission_tasks) = 1
    /\ mission_tasks[1].name = "Return"
    /\ mission_tasks[1].settings[1].value = "Station1"

\* the first object of the graph's list that has the name
FirstOfName(e, name) ==
    e.objects[CHOOSE k \in DOMAIN e.objects :
                /\ e.objects[k].name = name
                /\ \A j \in DOMAIN e.objects : e.objects[j].name = name => k <= j]

\* C24: a descriptor without a type, or with an empty one, takes its type from the
\* type tag of the first graph object of exactly its name: with no such object it is
\* dropped (the name-suffix form is not tried), with a tag that is no task type
\* (navigation_zone, docking_station) it is dropped, and with a tag of the static
\* table it resolves to the task of that type on the object of its name.
C24_TypeInferredFromObject ==
    [][ (EntryCalled /\ Get(task_list_data[1], "type", "") = "") =>
            LET task == task_list_data[1]
            IN /\ ~(\E k \in DOMAIN env.objects : env.objects[k].name = task.name) =>
                    mission_tasks' = <<>>
               /\ (\E k \in DOMAIN env.objects : env.objects[k].name = task.name) =>
                    /\ FirstOfName(env, task.name).type \notin
                            (DOMAIN TASK_CONFIGS \cup {"undock", "dock", "sleep"}) =>
                                mission_tasks' = <<>>
                    /\ FirstOfName(env, task.name).type \in DOMAIN TASK_CONFIGS =>
                        /\ Len(mission_tasks') = 1
                        /\ mission_tasks'[1].cls =
                                TASK_CONFIGS[FirstOfName(env, task.name).type].task_class
                        /\ mission_tasks'[1].settings[1].value = task.name
                        /\ mission_tasks'[1].name =
                                TASK_CONFIGS[FirstOfName(env, task.name).type].task_prefix
                                    \o " " \o LabelOrName(task)
      ]_vars

\* a descriptor with an empty type names an object that is in the graph twice, first
\* as an inspection point and then as a navigation zone: it resolved to an inspection
C24_Witness ==
    /\ pc = "resolved"
    /\ env = ShadowedEnvironment
    /\ task_list_data = << [name |-> "S1_0RVIS", type |-> "", label |-> "S1_0RVIS"] >>
    /\ Len(mission_tasks) = 1
    /\ mission_tasks[1].cls = "SimpleInspectionTask"
    /\ mission_tasks[1].settings[1].value = "S1_0RVIS"

\* what create_task_entry makes of descriptor i: the class pipeline's task, the
\* template pipeline's task dict, or None
Created(i) == create_task_entry(task_list_data[i], env)

LegacyCreated(i) == legacy_create_task_entry(task_list_data[i], legacy_env).mission_task

\* place of descriptor i among the descriptors that gave a task
CreatedPlace(i) == Cardinality({j \in 1..i : Created(j) # None})

LegacyCreatedPlace(i) == Cardinality({j \in 1..i : LegacyCreated(j) # None})

\* the first descriptor after i that gave a task
NextCreated(i) ==
    CHOOSE j \in (i+1)..Len(task_list_data) :
        Created(j) # None /\ \A m \in (i+1)..(j-1) : Created(m) = None

LegacyNextCreated(i) ==
    CHOOSE j \in (i+1)..Len(task_list_data) :
        LegacyCreated(j) # None /\ \A m \in (i+1)..(j-1) : LegacyCreated(m) = None

\* the linked task comes from the created one: it continues to the task named next on
\* every transition that held the placeholder
LinkedOnto(linked, created, next_name) ==
    /\ linked.name = created.name
    /\ linked.type = created.type
    /\ linked.settings = created.settings
    /\ DOMAIN linked.transitions = DOMAIN created.transitions
    /\ \A t \in DOMAIN created.transitions :
        created.transitions[t].transition = PLACEHOLDER =>
            linked.transitions[t] =
                Transition(created.transitions[t].outcome, next_name, TRUE)

\* the linked task comes from the created one and was marked final: no transition
\* that held the placeholder continues
MarkedFinal(linked, created) ==
    /\ linked.name = created.name
    /\ linked.type = created.type
    /\ linked.settings = created.settings
    /\ DOMAIN linked.transitions = DOMAIN created.transitions
    /\ \A t \in DOMAIN created.transitions :
        created.transitions[t].transition = PLACEHOLDER =>
            /\ linked.transitions[t].transition_to_state = FALSE
            /\ linked.transitions[t].transition \in {"success", "failure"}

\* C25: the Mission's tasks are, in input order, the tasks of exactly the descriptors
\* for which create_task_entry gave a task; a task whose descriptor is followed by
\* dropped descriptors is linked to the task of the first later descriptor that gave
\* one, and when none follows it is the task marked final.  The same holds in the
\* template pipeline for the descriptors its create_task_entry kept.
C25_DroppedKeepChain ==
    /\ Returned =>
        /\ Len(Tasks) = CreatedPlace(Len(task_list_data))
        /\ \A i \in DOMAIN task_list_data :
            Created(i) # None =>
                IF CreatedPlace(i) < CreatedPlace(Len(task_list_data))
                THEN LinkedOnto(Tasks[CreatedPlace(i)], Created(i), Created(NextCreated(i)).name)
                ELSE MarkedFinal(Tasks[CreatedPlace(i)], Created(i))
    /\ LegacyReturned =>
        /\ Len(LegacyTasks) = LegacyCreatedPlace(Len(task_list_data))
        /\ \A i \in DOMAIN task_list_data :
            LegacyCreated(i) # None =>
                IF LegacyCreatedPlace(i) < LegacyCreatedPlace(Len(task_list_data))
                THEN LinkedOnto(LegacyTasks[LegacyCreatedPlace(i)], LegacyCreated(i),
                                LegacyCreated(LegacyNextCreated(i)).name)
                ELSE MarkedFinal(LegacyTasks[LegacyCreatedPlace(i)], LegacyCreated(i))

\* of three descriptors the second was dropped by both pipelines: the first task
\* continues to the task of the third descriptor, which is the final one
C25_Witness ==
    /\ Returned
    /\ LegacyReturned
    /\ Len(task_list_data) = 3
    /\ Created(1) # None /\ Created(2) = None /\ Created(3) # None
    /\ LegacyCreated(1) # None /\ LegacyCreated(2) = None /\ LegacyCreated(3) # None
    /\ Created(1).cls = "NavigationTask"
    /\ Tasks[1].transitions[1].transition = Created(3).name
    /\ Tasks[1].name # Tasks[2].name
    /\ Tasks[2].cls = "InspectionTask"
    /\ Tasks[2].transitions[1] = Transition("anomaly", "failure", FALSE)
    /\ LegacyTasks[1].transitions[1].transition = LegacyCreated(3).name

\* the type of the task descriptor of an inspection entry
MappedType(c) ==
    IF c.type = "thermal_inspection" THEN "visual_inspection_thermal"
    ELSE "visual_inspection_simple"

\* the chunk of waypoint i of the segment is the navigation descriptor of the waypoint's
\* goal followed by one descriptor per entry of inspections, in order, each naming the
\* object the graph holds at that place behind the objects that were there at first
ChunkFollows(chunk, entry, i, inspections, e, first) ==
    /\ Len(chunk) = 1 + Len(inspections)
    /\ chunk[1] = [name |-> GoalName(entry, i), type |-> "navigation_goal"]
    /\ e.objects[first + i * (2 + Len(inspections)) + 1].name = GoalName(entry, i)
    /\ \A k \in DOMAIN inspections :
        /\ chunk[k + 1] = [name |-> InspectionName(entry, i, inspections[k]),
                           type |-> MappedType(inspections[k]),
                           action |-> "InspectFromHere"]
        /\ e.objects[first + i * (2 + Len(inspections)) + 2 + k].name = chunk[k + 1].name
        /\ e.objects[first + i * (2 + Len(inspections)) + 2 + k].type = chunk[k + 1].type

AllInspections(entry) == IF Has(entry, "inspections") THEN entry.inspections ELSE <<>>

\* C26 as stated: every chunk a call of generate_waypoints_for_segment returns is the
\* navigation descriptor followed by one inspection descriptor per inspection entry of
\* the segment, whatever the entry's type.
C26_OneDescriptorPerEntry ==
    [][ (SegmentCalled /\ pc' = "missions") =>
            \A i \in DOMAIN mission_chunks' :
                ChunkFollows(mission_chunks'[i], SegmentOf(entries'), i - 1,
                             AllInspections(SegmentOf(entries')), env', Len(env.objects))
      ]_vars

\* C26: every chunk a call of generate_waypoints_for_segment returns starts with the one
\* navigation descriptor {name: '<segment><index>_NavGoal', type: 'navigation_goal'},
\* followed by one inspection descriptor per inspection entry of type
\* thermal_inspection or visual_inspection, in entry order, each with action
\* 'InspectFromHere', the name of the inspection object just added to the graph, and
\* type visual_inspection_thermal or visual_inspection_simple; an entry of another
\* type gives no descriptor and no object.
C26_OneDescriptorPerKnownEntry ==
    [][ (SegmentCalled /\ pc' = "missions") =>
            \A i \in DOMAIN mission_chunks' :
                ChunkFollows(mission_chunks'[i], SegmentOf(entries'), i - 1,
                             KnownInspections(SegmentOf(entries')), env', Len(env.objects))
      ]_vars

\* a segment with a thermal entry, an entry of another type and a second thermal entry
\* was processed: each chunk holds the navigation descriptor and two inspection
\* descriptors
C26_Witness ==
    /\ pc = "missions"
    /\ Len(AllInspections(SegmentOf(entries))) = 3
    /\ Len(KnownInspections(SegmentOf(entries))) = 2
    /\ Len(mission_chunks) > 1
    /\ \A i \in DOMAIN mission_chunks :
        /\ Len(mission_chunks[i]) = 3
        /\ mission_chunks[i][2].type = "visual_inspection_thermal"
        /\ mission_chunks[i][3].action = "InspectFromHere"

ObjectNames(e) == {e.objects[k].name : k \in DOMAIN e.objects}

\* every descriptor of the list has a task in the Mission, in order, and the task
\* refers to the object of the descriptor's name
AllResolved(task_list, m) ==
    /\ Len(StatesOf(m)) = Len(task_list)
    /\ \A i \in DOMAIN task_list :
        StatesOf(m)[i].settings[1].value = task_list[i].name

\* C27: after any sequence of generate_waypoints_for_segment calls every relation's
\* child and parent are names of objects of the graph, every descriptor of the chunks
\* returned names an object of the graph, and the forward and the reverse Mission
\* generated from the chunks have one task per descriptor.
C27_ReferentialIntegrity ==
    /\ \A k \in DOMAIN env.object_relations :
        /\ env.object_relations[k].child \in ObjectNames(env)
        /\ env.object_relations[k].parent \in ObjectNames(env)
    /\ \A c \in DOMAIN mission_chunks :
        \A k \in DOMAIN mission_chunks[c] : mission_chunks[c][k].name \in ObjectNames(env)
    /\ final_mission_fwd # None =>
        /\ AllResolved(forward_task_list, final_mission_fwd)
        /\ AllResolved(reverse_task_list, final_mission_rev)

\* two segments were processed, the second one with inspections: the graph has
\* relations of both kinds and the missions of the second segment have a task for
\* each of its descriptors
C27_Witness ==
    /\ pc = "segment"
    /\ Len(entries) = 2
    /\ final_mission_fwd # None
    /\ Len(KnownInspections(entries[2])) = 2
    /\ Len(forward_task_list) >= 6
    /\ Len(StatesOf(final_mission_rev)) = Len(forward_task_list)
    /\ Len(env.object_relations) >= 7
    /\ \E k \in DOMAIN env.object_relations :
            env.object_relations[k].parent = forward_task_list[2].name

\* the tasks a Mission's executor may stand at when it goes to the state named name:
\* any task of that name
TasksNamed(ts, name) == {i \in DOMAIN ts : ts[i].name = name}

\* the tasks the executor may stand at after task i has been executed with some outcome
\* whose transition continues
Successors(ts, i) ==
    UNION { TasksNamed(ts, ts[i].transitions[t].transition) :
                t \in {u \in DOMAIN ts[i].transitions : ts[i].transitions[u].transition_to_state} }

\* the tasks the executor may stand at after k task executions from the initial state
RECURSIVE StandingAfter(_, _)
StandingAfter(m, k) ==
    IF k = 0 THEN TasksNamed(StatesOf(m), InitialStateOf(m))
    ELSE UNION { Successors(StatesOf(m), i) : i \in StandingAfter(m, k - 1) }

\* C28: executing the returned Mission from its initial state, with any outcome at each
\* task, reaches an exit state after at most N task executions, N the number of
\* tasks: after N executions the executor stands at no task, every transition that
\* does not continue names one of success, failure, preemption and every one that
\* continues names a task.
C28_ExecutionTerminates ==
    Returned =>
        /\ StandingAfter(mission, Len(Tasks)) = {}
        /\ \A i \in DOMAIN Tasks : \A t \in DOMAIN Tasks[i].transitions :
            IF Tasks[i].transitions[t].transition_to_state
            THEN TasksNamed(Tasks, Tasks[i].transitions[t].transition) # {}
            ELSE Tasks[i].transitions[t].transition \in ExitStates

\* C29 as stated: in the returned Mission a transition has transition_to_state = TRUE
\* if and only if its target is the name of a task of the Mission, and FALSE if and
\* only if its target is one of success, failure, preemption.
C29_FlagIffTarget ==
    Returned =>
        \A i \in DOMAIN Tasks : \A t \in DOMAIN Tasks[i].transitions :
            /\ Tasks[i].transitions[t].transition_to_state <=>
                    Tasks[i].transitions[t].transition \in TaskNames(Tasks)
            /\ ~Tasks[i].transitions[t].transition_to_state <=>
                    Tasks[i].transitions[t].transition \in ExitStates

\* C29: in the returned Mission a transition with transition_to_state = TRUE targets
\* the name of a task of the Mission and one with FALSE targets one of success,
\* failure, preemption; when no task of the Mission is named success, failure or
\* preemption the converse holds too, so the flag is TRUE if and only if the target
\* is a task name and FALSE if and only if it is an exit state.
C29_FlagAgreesWithTarget ==
    Returned =>
        \A i \in DOMAIN Tasks : \A t \in DOMAIN Tasks[i].transitions :
            /\ Tasks[i].transitions[t].transition_to_state =>
                    Tasks[i].transitions[t].transition \in TaskNames(Tasks)
            /\ ~Tasks[i].transitions[t].transition_to_state =>
                    Tasks[i].transitions[t].transition \in ExitStates
            /\ TaskNames(Tasks) \cap ExitStates = {} =>
                /\ Tasks[i].transitions[t].transition \in TaskNames(Tasks) =>
                        Tasks[i].transitions[t].transition_to_state
                /\ Tasks[i].transitions[t].transition \in ExitStates =>
                        ~Tasks[i].transitions[t].transition_to_state

\* a Mission of two tasks, none named like an exit state: the first continues to the
\* second on success and halts on failure, the second halts on every outcome
C29_Witness ==
    /\ Returned
    /\ Len(Tasks) = 2
    /\ TaskNames(Tasks) \cap ExitStates = {}
    /\ Tasks[1].transitions[1] = Transition("failure", "failure", FALSE)
    /\ Tasks[1].transitions[3] = Transition("success", Tasks[2].name, TRUE)
    /\ Tasks[2].cls = "NavigationTask"
    /\ \A t \in DOMAIN Tasks[2].transitions : ~Tasks[2].transitions[t].transition_to_state

\* a task of the class pipeline and a task dict of the template pipeline agree in
\* name, type string, settings and transitions
SameTask(task, legacy_task) ==
    /\ task.name = legacy_task.name
    /\ task.type = legacy_task.type
    /\ task.settings = legacy_task.settings
    /\ task.transitions = legacy_task.transitions

\* C30: on the same descriptor list and the same graph content the template pipeline
\* and the class pipeline return the same initial state and the same tasks in the
\* same order, with the same names, type strings, settings and transitions, also
\* when a descriptor has an unknown type or names a missing object.
C30_PipelinesEquivalent ==
    (Returned /\ LegacyReturned) =>
        /\ LegacyInitialState = InitialStateOf(mission)
        /\ Len(LegacyTasks) = Len(Tasks)
        /\ \A i \in DOMAIN Tasks : SameTask(Tasks[i], LegacyTasks[i])

====
